---- MODULE Spec2Model ----
(***************************************************************************)
(* Model of the LXC container tools of proxmox-mcp-plus                    *)
(* (src/src/proxmox_mcp/tools/containers.py): inventory enumeration,       *)
(* selector resolution, the bulk start/stop/restart/update operations and  *)
(* the per-container stats resolution of get_containers.                   *)
(*                                                                         *)
(* Python values are modelled as follows.                                  *)
(*   str            a sequence of one-character strings                    *)
(*   Optional[x]    <<>> (None / key absent) or <<x>>                      *)
(*   int-or-str     a record [ty, i, s] (PyInt / PyStr)                    *)
(*   float cpu      an integer number of 1e-5 units (see CpuPct)           *)
(***************************************************************************)
EXTENDS Integers, Sequences, FiniteSets, TLC

VARIABLES
    remote,       \* the cluster as the remote API answers it
    call,         \* arguments of the last tool call
    faults,       \* indexes of the targets whose remote request raises
    requests,     \* remote requests issued by the last tool call, in order
    resolution,   \* what _resolve_targets did in the last tool call
    result,       \* what the last tool call returned
    stats_in,     \* responses seen by the last stats resolution
    stats_pre,    \* its locals just before the RRD fallback (line 259)
    stats_row,    \* the stats fields it put into the row
    answers       \* how the remote API answers the requests about one
                  \* container, by container id

vars == <<remote, call, faults, requests, resolution, result,
          stats_in, stats_pre, stats_row, answers>>

----------------------------------------------------------------------------
(* Bounds *)

\* longest selector, in comma-separated tokens
MaxTokens == 2

\* most requests of one tool call that the remote API fails
MaxFaults == 2

----------------------------------------------------------------------------
(* Optional values and Python scalars *)

None == <<>>
Some(x) == <<x>>
IsNone(o) == o = <<>>
Val(o) == o[1]

PyInt(n) == [ty |-> "int", i |-> n, s |-> <<>>]
PyStr(cs) == [ty |-> "str", i |-> 0, s |-> cs]

----------------------------------------------------------------------------
(* Strings *)

AsciiDigits == <<"0", "1", "2", "3", "4", "5", "6", "7", "8", "9">>

IsAsciiDigit(c) == \E k \in 1..10 : AsciiDigits[k] = c

DigitValue(c) == (CHOOSE k \in 1..10 : AsciiDigits[k] = c) - 1

\* U+00B2 SUPERSCRIPT TWO: str.isdigit() accepts it, int() does not
SuperscriptTwo == "sup2"

IsWhitespace(c) == c = " "

Contains(cs, c) == \E k \in 1..Len(cs) : cs[k] = c

\* str.strip()
Strip(cs) ==
    LET ns == {k \in 1..Len(cs) : ~IsWhitespace(cs[k])}
    IN  IF ns = {} THEN <<>>
        ELSE SubSeq(cs, CHOOSE k \in ns : \A j \in ns : k <= j,
                        CHOOSE k \in ns : \A j \in ns : k >= j)

\* index of the first occurrence of c in cs (cs contains c)
IndexOf(cs, c) == CHOOSE k \in 1..Len(cs) :
                      cs[k] = c /\ \A j \in 1..(k - 1) : cs[j] # c

\* str.split(sep, 1) of a string that contains sep
SplitFirst(cs, sep) ==
    LET k == IndexOf(cs, sep)
    IN  <<SubSeq(cs, 1, k - 1), SubSeq(cs, k + 1, Len(cs))>>

\* str.split(sep): the pieces between the occurrences of sep
Split(cs, sep) ==
    LET at == {k \in 1..Len(cs) : cs[k] = sep}
        \* position of the j-th separator; 0 and Len(cs) + 1 close the ends
        pos(j) == IF j = 0 THEN 0
                  ELSE IF j > Cardinality(at) THEN Len(cs) + 1
                  ELSE CHOOSE k \in at : Cardinality({m \in at : m < k}) = j - 1
    IN  [j \in 1..(Cardinality(at) + 1) |->
            SubSeq(cs, pos(j - 1) + 1, pos(j) - 1)]

\* str.isdigit()
IsDigit(cs) ==
    /\ cs # <<>>
    /\ \A k \in 1..Len(cs) : IsAsciiDigit(cs[k]) \/ cs[k] = SuperscriptTwo

\* the number a string of ASCII digits denotes, from its first n digits
RECURSIVE DigitsValue(_, _)
DigitsValue(cs, n) ==
    IF n = 0 THEN 0 ELSE 10 * DigitsValue(cs, n - 1) + DigitValue(cs[n])

\* int(str): [ok |-> FALSE] stands for ValueError
ParseInt(cs) ==
    LET t == Strip(cs)
        signed == t # <<>> /\ t[1] \in {"-", "+"}
        body == IF signed THEN Tail(t) ELSE t
    IN  IF body # <<>> /\ \A k \in 1..Len(body) : IsAsciiDigit(body[k])
        THEN [ok |-> TRUE,
              val |-> IF signed /\ t[1] = "-"
                      THEN 0 - DigitsValue(body, Len(body))
                      ELSE DigitsValue(body, Len(body))]
        ELSE [ok |-> FALSE, val |-> 0]

\* int(x) for an int or a str
ToInt(v) == IF v.ty = "int" THEN [ok |-> TRUE, val |-> v.i] ELSE ParseInt(v.s)

RECURSIVE NatToStr(_)
NatToStr(n) ==
    IF n < 10 THEN <<AsciiDigits[n + 1]>>
    ELSE NatToStr(n \div 10) \o <<AsciiDigits[(n % 10) + 1]>>

\* str(int)
IntToStr(n) == IF n < 0 THEN <<"-">> \o NatToStr(0 - n) ELSE NatToStr(n)

RECURSIVE Join(_, _)
Join(parts, sep) ==
    IF parts = <<>> THEN <<>>
    ELSE IF Len(parts) = 1 THEN parts[1]
    ELSE parts[1] \o <<sep>> \o Join(Tail(parts), sep)

----------------------------------------------------------------------------
(* Remote API: responses and requests *)

\* A response is a bare list, a {"data": list} envelope, a mapping without
\* a list under "data", or the request raises.
BareList(items) == [shape |-> "list", payload |-> items]
Envelope(items) == [shape |-> "envelope", payload |-> items]
OtherShape == [shape |-> "other", payload |-> <<>>]
Raises == [shape |-> "raise", payload |-> <<>>]

\* _as_list
AsList(resp) ==
    IF resp.shape \in {"list", "envelope"} THEN resp.payload ELSE <<>>

\* an exception: its class and its text
Exc(type, text) == [type |-> type, text |-> text]

\* what a failing request raises, and what int() raises on a non-number
RemoteError == Exc("Exception", <<"error">>)
InvalidLiteral == Exc("ValueError", <<"invalid literal for int()">>)
NoExc == Exc("", <<>>)

NoParams == [cores |-> None, memory |-> None, swap |-> None,
             timeout |-> None, disk |-> None, size |-> None]

\* one request to the remote API
Req(kind, node, vmid, params) ==
    [kind |-> kind, node |-> node, vmid |-> vmid, params |-> params]

\* a container record of a listing: every key is optional
Ct(vmid, name, hostname, status) ==
    [vmid |-> vmid, name |-> name, hostname |-> hostname, status |-> status]

\* a listing entry is a mapping or a bare scalar
DictEntry(ct) == [kind |-> "dict", ct |-> ct, val |-> PyInt(0)]
ScalarEntry(v) == [kind |-> "scalar", ct |-> Ct(None, None, None, None), val |-> v]

----------------------------------------------------------------------------
(* Inventory enumeration *)

\* the coercion as it would be if an entry that is no number ended the
\* listing instead of being skipped
RECURSIVE CoerceEntriesAbort(_, _)
CoerceEntriesAbort(nname, items) ==
    IF items = <<>> THEN <<>>
    ELSE LET it == Head(items)
         IN  IF it.kind = "dict"
             THEN <<[node |-> nname, ct |-> it.ct]>>
                  \o CoerceEntriesAbort(nname, Tail(items))
             ELSE IF ToInt(it.val).ok
             THEN <<[node |-> nname,
                     ct |-> Ct(Some(PyInt(ToInt(it.val).val)), None, None,
                               None)]>>
                  \o CoerceEntriesAbort(nname, Tail(items))
             ELSE <<>>

\* the pairs one node's listing contributes (lines 98-106)
RECURSIVE CoerceEntries(_, _)
CoerceEntries(nname, items) ==
    IF items = <<>> THEN <<>>
    ELSE LET it == Head(items)
             rest == CoerceEntries(nname, Tail(items))
         IN  IF it.kind = "dict"
             THEN <<[node |-> nname, ct |-> it.ct]>> \o rest
             ELSE LET v == ToInt(it.val)
                  IN  IF v.ok
                      THEN <<[node |-> nname,
                              ct |-> Ct(Some(PyInt(v.val)), None, None, None)]>>
                           \o rest
                      ELSE rest

\* the loop over the cluster's nodes (lines 93-106), given the pairs and the
\* requests so far; a listing request that raises ends the enumeration with
\* that exception
RECURSIVE ListNodes(_, _, _, _)
ListNodes(r, nodes, pairs, reqs) ==
    IF nodes = <<>> THEN [raised |-> FALSE, pairs |-> pairs, reqs |-> reqs]
    ELSE IF IsNone(Head(nodes).node) \/ Head(nodes).node = Some(<<>>)
    THEN ListNodes(r, Tail(nodes), pairs, reqs)
    ELSE LET nname == Val(Head(nodes).node)
             req == Req("lxc.get", nname, None, NoParams)
         IN  IF r.lxc[nname].shape = "raise"
             THEN [raised |-> TRUE, pairs |-> <<>>, reqs |-> reqs \o <<req>>]
             ELSE ListNodes(r, Tail(nodes),
                            pairs \o CoerceEntries(nname, AsList(r.lxc[nname])),
                            reqs \o <<req>>)

\* _list_ct_pairs(node=None)
ListCtPairs(r) ==
    LET req == Req("nodes.get", <<>>, None, NoParams)
    IN  IF r.nodes.shape = "raise"
        THEN [raised |-> TRUE, pairs |-> <<>>, reqs |-> <<req>>]
        ELSE ListNodes(r, AsList(r.nodes), <<>>, <<req>>)

----------------------------------------------------------------------------
(* Selector resolution *)

Target(node, vmid, label) == [node |-> node, vmid |-> vmid, label |-> label]

\* int(_get(ct, "vmid", -1))
VmidOf(ct) ==
    IF IsNone(ct.vmid) THEN [ok |-> TRUE, val |-> 0 - 1] ELSE ToInt(Val(ct.vmid))

\* a string that is present and not empty
Truthy(o) == ~IsNone(o) /\ Val(o) # <<>>

\* _get(ct, "name") or _get(ct, "hostname") or f"ct-{vmid}"
Label(ct, vmid) ==
    IF Truthy(ct.name) THEN Val(ct.name)
    ELSE IF Truthy(ct.hostname) THEN Val(ct.hostname)
    ELSE <<"c", "t", "-">> \o IntToStr(vmid)

\* _get(ct, "name") == name or _get(ct, "hostname") == name
NameMatches(ct, name) == ct.name = Some(name) \/ ct.hostname = Some(name)

\* the loops over the inventory extend the list resolved, or raise
Extended(resolved) == [raised |-> FALSE, resolved |-> resolved]
Raised == [raised |-> TRUE, resolved |-> <<>>]

\* node:id token: the first inventory entry of that node with that id
\* (lines 327-331)
RECURSIVE ScanNodeId(_, _, _, _)
ScanNodeId(inv, node, vmid, resolved) ==
    IF inv = <<>> THEN Extended(resolved)
    ELSE IF Head(inv).node # node
    THEN ScanNodeId(Tail(inv), node, vmid, resolved)
    ELSE IF ~VmidOf(Head(inv).ct).ok THEN Raised
    ELSE IF VmidOf(Head(inv).ct).val = vmid
    THEN Extended(resolved
                  \o <<Target(node, vmid, Label(Head(inv).ct, vmid))>>)
    ELSE ScanNodeId(Tail(inv), node, vmid, resolved)

\* node/name token: every entry of that node with that name (lines 337-341)
RECURSIVE ScanNodeName(_, _, _, _)
ScanNodeName(inv, node, name, resolved) ==
    IF inv = <<>> THEN Extended(resolved)
    ELSE IF ~(Head(inv).node = node /\ NameMatches(Head(inv).ct, name))
    THEN ScanNodeName(Tail(inv), node, name, resolved)
    ELSE IF ~VmidOf(Head(inv).ct).ok THEN Raised
    ELSE IF VmidOf(Head(inv).ct).val >= 0
    THEN ScanNodeName(Tail(inv), node, name,
                      resolved
                      \o <<Target(node, VmidOf(Head(inv).ct).val, name)>>)
    ELSE ScanNodeName(Tail(inv), node, name, resolved)

\* ScanId as it would be with the break of the node:id branch
RECURSIVE ScanIdFirstOnly(_, _, _)
ScanIdFirstOnly(inv, vmid, resolved) ==
    IF inv = <<>> THEN Extended(resolved)
    ELSE IF ~VmidOf(Head(inv).ct).ok THEN Raised
    ELSE IF VmidOf(Head(inv).ct).val = vmid
    THEN Extended(resolved
                  \o <<Target(Head(inv).node, vmid, Label(Head(inv).ct, vmid))>>)
    ELSE ScanIdFirstOnly(Tail(inv), vmid, resolved)

\* all-digit token: every entry with that id, on any node (lines 346-349)
RECURSIVE ScanId(_, _, _)
ScanId(inv, vmid, resolved) ==
    IF inv = <<>> THEN Extended(resolved)
    ELSE IF ~VmidOf(Head(inv).ct).ok THEN Raised
    ELSE IF VmidOf(Head(inv).ct).val = vmid
    THEN ScanId(Tail(inv), vmid,
                resolved
                \o <<Target(Head(inv).node, vmid, Label(Head(inv).ct, vmid))>>)
    ELSE ScanId(Tail(inv), vmid, resolved)

\* bare name token: every entry with that name, on any node (lines 353-357)
RECURSIVE ScanName(_, _, _)
ScanName(inv, name, resolved) ==
    IF inv = <<>> THEN Extended(resolved)
    ELSE IF ~NameMatches(Head(inv).ct, name)
    THEN ScanName(Tail(inv), name, resolved)
    ELSE IF ~VmidOf(Head(inv).ct).ok THEN Raised
    ELSE IF VmidOf(Head(inv).ct).val >= 0
    THEN ScanName(Tail(inv), name,
                  resolved
                  \o <<Target(Head(inv).node, VmidOf(Head(inv).ct).val, name)>>)
    ELSE ScanName(Tail(inv), name, resolved)

\* the kind of a token, by the tests of lines 321, 334 and 344
TokenKind(tok) ==
    IF Contains(tok, ":") /\ ~Contains(tok, "/") THEN "node:id"
    ELSE IF Contains(tok, "/") /\ ~Contains(tok, ":") THEN "node/name"
    ELSE IF IsDigit(tok) THEN "id"
    ELSE "name"

\* one iteration of the loop over the tokens (lines 320-357)
ResolveToken(tok, inv, resolved) ==
    LET kind == TokenKind(tok)
    IN  IF kind = "node:id"
        THEN IF ~ParseInt(SplitFirst(tok, ":")[2]).ok THEN Extended(resolved)
             ELSE ScanNodeId(inv, SplitFirst(tok, ":")[1],
                             ParseInt(SplitFirst(tok, ":")[2]).val, resolved)
        ELSE IF kind = "node/name"
        THEN ScanNodeName(inv, SplitFirst(tok, "/")[1],
                          Strip(SplitFirst(tok, "/")[2]), resolved)
        ELSE IF kind = "id"
        THEN IF ~ParseInt(tok).ok THEN Raised
             ELSE ScanId(inv, ParseInt(tok).val, resolved)
        ELSE ScanName(inv, tok, resolved)

\* the loop over the tokens (lines 319-357)
RECURSIVE ResolveTokens(_, _, _)
ResolveTokens(tokens, inv, resolved) ==
    IF tokens = <<>> THEN Extended(resolved)
    ELSE IF ResolveToken(Head(tokens), inv, resolved).raised THEN Raised
    ELSE ResolveTokens(Tail(tokens), inv,
                       ResolveToken(Head(tokens), inv, resolved).resolved)

\* [t.strip() for t in selector.split(",") if t.strip()]
Tokens(selector) ==
    LET parts == Split(selector, ",")
        NotEmpty(t) == t # <<>>
    IN  SelectSeq([k \in 1..Len(parts) |-> Strip(parts[k])], NotEmpty)

\* the label the dict of lines 359-361 ends up holding for a key: the last
\* one written
LastLabel(resolved, node, vmid) ==
    LET k == CHOOSE k \in 1..Len(resolved) :
                 /\ resolved[k].node = node /\ resolved[k].vmid = vmid
                 /\ \A j \in (k + 1)..Len(resolved) :
                        ~(resolved[j].node = node /\ resolved[j].vmid = vmid)
    IN  resolved[k].label

\* the keys of the dict, in insertion order
RECURSIVE UniqKeys(_, _)
UniqKeys(resolved, seen) ==
    IF resolved = <<>> THEN <<>>
    ELSE LET key == <<Head(resolved).node, Head(resolved).vmid>>
         IN  IF key \in seen THEN UniqKeys(Tail(resolved), seen)
             ELSE <<key>> \o UniqKeys(Tail(resolved), seen \cup {key})

\* Dedupe as it would be without the dict
DedupeNone(resolved) == resolved

\* lines 359-362
Dedupe(resolved) ==
    LET keys == UniqKeys(resolved, {})
    IN  [k \in 1..Len(keys) |->
            Target(keys[k][1], keys[k][2],
                   LastLabel(resolved, keys[k][1], keys[k][2]))]

\* _resolve_targets: whether it raised, the list it returned, the requests
\* it issued, and its locals tokens, inventory and resolved
ResolveTargets(r, selector) ==
    LET none == [raised |-> FALSE, targets |-> <<>>, reqs |-> <<>>,
                 tokens |-> <<>>, inventory |-> <<>>, resolved |-> <<>>,
                 exc |-> NoExc]
        tokens == Tokens(selector)
        inventory == ListCtPairs(r)
        res == ResolveTokens(tokens, inventory.pairs, <<>>)
    IN  IF selector = <<>> THEN none
        ELSE IF inventory.raised
        THEN [none EXCEPT !.raised = TRUE, !.reqs = inventory.reqs,
                          !.tokens = tokens, !.exc = RemoteError]
        ELSE IF res.raised
        THEN [none EXCEPT !.raised = TRUE, !.reqs = inventory.reqs,
                          !.tokens = tokens, !.inventory = inventory.pairs,
                          !.exc = InvalidLiteral]
        ELSE [raised |-> FALSE, targets |-> Dedupe(res.resolved),
              reqs |-> inventory.reqs, tokens |-> tokens,
              inventory |-> inventory.pairs, resolved |-> res.resolved,
              exc |-> NoExc]

----------------------------------------------------------------------------
(* Bulk operations *)

\* the arguments of a tool call; op = "" when no call was made yet
NoArgs == [op |-> "", selector |-> <<>>, graceful |-> TRUE,
           timeout_seconds |-> 10, cores |-> None, memory |-> None,
           swap |-> None, disk_gb |-> None, disk |-> "rootfs",
           node |-> None, include_stats |-> TRUE, include_raw |-> FALSE,
           format_style |-> "pretty", vmid |-> <<>>, force |-> FALSE,
           storage |-> None]

\* one entry of the result list of a bulk operation
ActionOk(t, message) ==
    [ok |-> TRUE, node |-> t.node, vmid |-> t.vmid, name |-> t.label,
     message |-> Some(message), error |-> None]

ActionFail(t, e) ==
    [ok |-> FALSE, node |-> t.node, vmid |-> t.vmid, name |-> t.label,
     message |-> None, error |-> Some(e)]

\* the request fails when the remote API fails the i-th target's request
\* of that kind
Fails(f, i, kind) == <<i, kind>> \in f

\* ActionRequest as it would be if the forced stop carried the timeout too
ActionRequestStopTimeout(c, t) ==
    IF c.op = "start_container"
    THEN Req("status.start.post", t.node, Some(t.vmid), NoParams)
    ELSE IF c.op = "stop_container"
    THEN Req(IF c.graceful THEN "status.shutdown.post" ELSE "status.stop.post",
             t.node, Some(t.vmid),
             [NoParams EXCEPT !.timeout = Some(c.timeout_seconds)])
    ELSE Req("status.reboot.post", t.node, Some(t.vmid), NoParams)

\* the request start, stop and restart issue for one target
\* (lines 390, 418-420, 445)
ActionRequest(c, t) ==
    IF c.op = "start_container"
    THEN Req("status.start.post", t.node, Some(t.vmid), NoParams)
    ELSE IF c.op = "stop_container"
    THEN IF c.graceful
         THEN Req("status.shutdown.post", t.node, Some(t.vmid),
                  [NoParams EXCEPT !.timeout = Some(c.timeout_seconds)])
         ELSE Req("status.stop.post", t.node, Some(t.vmid), NoParams)
    ELSE Req("status.reboot.post", t.node, Some(t.vmid), NoParams)

\* the index of the first target whose request raises, or one past the last
FirstFailure(c, ts, f) ==
    LET failing == {i \in 1..Len(ts) : Fails(f, i, ActionRequest(c, ts[i]).kind)}
    IN  IF failing = {} THEN Len(ts) + 1
        ELSE CHOOSE i \in failing : \A j \in failing : i <= j

\* ActionLoop as it would be without the try/except around each request:
\* the first request that raises ends the loop and leaves no entry
ActionLoopAbort(c, ts, f) ==
    [results |-> [i \in 1..(FirstFailure(c, ts, f) - 1) |->
                     ActionOk(ts[i], <<"UPID">>)],
     reqs |-> [i \in 1..(IF FirstFailure(c, ts, f) > Len(ts) THEN Len(ts)
                         ELSE FirstFailure(c, ts, f)) |->
                  ActionRequest(c, ts[i])]]

\* ActionLoop as it would be if the requests that raised were issued once
\* more after the loop
ActionLoopRetry(c, ts, f) ==
    LET all == [i \in 1..Len(ts) |-> ActionRequest(c, ts[i])]
        Raising(r) == \E i \in 1..Len(ts) : all[i] = r /\ Fails(f, i, r.kind)
    IN  [results |-> [i \in 1..Len(ts) |->
                         IF Fails(f, i, all[i].kind)
                         THEN ActionFail(ts[i], "error")
                         ELSE ActionOk(ts[i], <<"UPID">>)],
         reqs |-> all \o SelectSeq(all, Raising)]

\* the loop over the targets of start, stop and restart
\* (lines 388-393, 415-423, 443-448): one request and one entry per target
ActionLoop(c, ts, f) ==
    [results |-> [i \in 1..Len(ts) |->
                     IF Fails(f, i, ActionRequest(c, ts[i]).kind)
                     THEN ActionFail(ts[i], "error")
                     ELSE ActionOk(ts[i], <<"UPID">>)],
     reqs |-> [i \in 1..Len(ts) |-> ActionRequest(c, ts[i])]]

\* f"+{disk_gb}G"
SizeStr(disk_gb) == <<"+">> \o IntToStr(disk_gb) \o <<"G">>

\* the changes update_container_resources lists in its message
\* (lines 491-499, 508)
Changes(c) ==
    (IF IsNone(c.cores) THEN <<>> ELSE <<"cores">>)
    \o (IF IsNone(c.memory) THEN <<>> ELSE <<"memory">>)
    \o (IF IsNone(c.swap) THEN <<>> ELSE <<"swap">>)
    \o (IF IsNone(c.disk_gb) THEN <<>> ELSE <<"disk">>)

\* ", ".join(changes) if changes else "no changes" (line 508)
ChangesMessage(c) ==
    IF Changes(c) = <<>> THEN <<"no changes">> ELSE Changes(c)

\* UpdateOne as it would be if the config request were issued whether or
\* not a parameter was given
UpdateOneAlwaysConfig(c, t, f, i) ==
    LET config == Req("config.put", t.node, Some(t.vmid),
                      [NoParams EXCEPT !.cores = c.cores,
                                       !.memory = c.memory,
                                       !.swap = c.swap])
        resize == Req("resize.put", t.node, Some(t.vmid),
                      [NoParams EXCEPT !.disk = Some(c.disk),
                                       !.size = Some(SizeStr(Val(c.disk_gb)))])
        config_raised == Fails(f, i, "config.put")
        resize_issued == ~config_raised /\ ~IsNone(c.disk_gb)
        resize_raised == resize_issued /\ Fails(f, i, "resize.put")
    IN  [entry |-> IF config_raised \/ resize_raised
                   THEN ActionFail(t, "error")
                   ELSE ActionOk(t, ChangesMessage(c)),
         reqs |-> <<config>> \o (IF resize_issued THEN <<resize>> ELSE <<>>)]

\* UpdateOne as it would be with a try block of its own around each
\* request: the resize request is issued although the config request raised
UpdateOneSeparateTries(c, t, f, i) ==
    LET has_params == ~(IsNone(c.cores) /\ IsNone(c.memory) /\ IsNone(c.swap))
        config == Req("config.put", t.node, Some(t.vmid),
                      [NoParams EXCEPT !.cores = c.cores,
                                       !.memory = c.memory,
                                       !.swap = c.swap])
        resize == Req("resize.put", t.node, Some(t.vmid),
                      [NoParams EXCEPT !.disk = Some(c.disk),
                                       !.size = Some(SizeStr(Val(c.disk_gb)))])
        config_raised == has_params /\ Fails(f, i, "config.put")
        resize_issued == ~IsNone(c.disk_gb)
        resize_raised == resize_issued /\ Fails(f, i, "resize.put")
    IN  [entry |-> IF config_raised \/ resize_raised
                   THEN ActionFail(t, "error")
                   ELSE ActionOk(t, ChangesMessage(c)),
         reqs |-> (IF has_params THEN <<config>> ELSE <<>>)
                  \o (IF resize_issued THEN <<resize>> ELSE <<>>)]

\* the body of the loop of update_container_resources for one target
\* (lines 486-515)
UpdateOne(c, t, f, i) ==
    LET has_params == ~(IsNone(c.cores) /\ IsNone(c.memory) /\ IsNone(c.swap))
        config == Req("config.put", t.node, Some(t.vmid),
                      [NoParams EXCEPT !.cores = c.cores,
                                       !.memory = c.memory,
                                       !.swap = c.swap])
        resize == Req("resize.put", t.node, Some(t.vmid),
                      [NoParams EXCEPT !.disk = Some(c.disk),
                                       !.size = Some(SizeStr(Val(c.disk_gb)))])
        config_raised == has_params /\ Fails(f, i, "config.put")
        resize_issued == ~config_raised /\ ~IsNone(c.disk_gb)
        resize_raised == resize_issued /\ Fails(f, i, "resize.put")
    IN  [entry |-> IF config_raised \/ resize_raised
                   THEN ActionFail(t, "error")
                   ELSE ActionOk(t, ChangesMessage(c)),
         reqs |-> (IF has_params THEN <<config>> ELSE <<>>)
                  \o (IF resize_issued THEN <<resize>> ELSE <<>>)]

\* the requests of the targets from the i-th on, after reqs
RECURSIVE UpdateRequests(_, _, _, _, _)
UpdateRequests(c, ts, f, i, reqs) ==
    IF i > Len(ts) THEN reqs
    ELSE UpdateRequests(c, ts, f, i + 1, reqs \o UpdateOne(c, ts[i], f, i).reqs)

\* the loop over the targets of update_container_resources (lines 485-515)
UpdateLoop(c, ts, f) ==
    [results |-> [i \in 1..Len(ts) |-> UpdateOne(c, ts[i], f, i).entry],
     reqs |-> UpdateRequests(c, ts, f, 1, <<>>)]

\* the error handler of the tool base class: an error report carrying the
\* failed action and the exception text
HandleError(action, e) ==
    [kind |-> "error", action |-> action, error |-> e.text, results |-> <<>>]

\* _err
Err(action, e) == HandleError(action, e)

\* the result list, rendered by _json_fmt or _render_action_result
Rendered(title, results) ==
    [kind |-> "results", action |-> title, error |-> <<>>,
     results |-> results]

\* Bulk as it would be without the check for an empty target list
BulkNoEmptyCheck(c, res, f, title, failed) ==
    LET loop == IF c.op = "update_container_resources"
                THEN UpdateLoop(c, res.targets, f)
                ELSE ActionLoop(c, res.targets, f)
    IN  /\ call' = c
        /\ faults' = f
        /\ resolution' = [raised |-> res.raised, targets |-> res.targets,
                          tokens |-> res.tokens, inventory |-> res.inventory,
                          resolved |-> res.resolved]
        /\ IF res.raised
           THEN /\ requests' = res.reqs
                /\ result' = Err(failed, res.exc)
           ELSE /\ requests' = res.reqs \o loop.reqs
                /\ result' = Rendered(title, loop.results)
        /\ UNCHANGED <<remote, stats_in, stats_pre, stats_row, answers>>

\* the body shared by the four bulk operations (lines 382-400, 409-430,
\* 437-455, 479-522) once _resolve_targets has returned or raised res:
\* refuse an empty target list, loop over the targets, render
Bulk(c, res, f, title, failed) ==
    LET loop == IF c.op = "update_container_resources"
                THEN UpdateLoop(c, res.targets, f)
                ELSE ActionLoop(c, res.targets, f)
    IN  /\ call' = c
        /\ faults' = f
        /\ resolution' = [raised |-> res.raised, targets |-> res.targets,
                          tokens |-> res.tokens, inventory |-> res.inventory,
                          resolved |-> res.resolved]
        /\ IF res.raised
           THEN /\ requests' = res.reqs
                /\ result' = Err(failed, res.exc)
           ELSE IF res.targets = <<>>
           THEN /\ requests' = res.reqs
                /\ result' = Err("No containers matched the selector",
                                  Exc("ValueError", c.selector))
           ELSE /\ requests' = res.reqs \o loop.reqs
                /\ result' = Rendered(title, loop.results)
        /\ UNCHANGED <<remote, stats_in, stats_pre, stats_row, answers>>

----------------------------------------------------------------------------
(* The clusters and the selectors the tool calls are tried on *)

n1 == <<"n", "1">>
n2 == <<"n", "2">>
web == <<"w", "e", "b">>
db == <<"d", "b">>
orphan == <<"o", "r", "p", "h", "a", "n">>

OneNode(name) == [node |-> Some(name)]
Unnamed == [node |-> None]

\* two nodes; id 200 on both; a string-encoded id; a record without id;
\* a bare id; one listing enveloped
ClusterA ==
    [nodes |-> BareList(<<OneNode(n1), OneNode(n2)>>),
     lxc |-> [n \in {n1, n2} |->
        IF n = n1
        THEN BareList(<<
               DictEntry(Ct(Some(PyInt(200)), Some(web), None, Some("running"))),
               DictEntry(Ct(Some(PyStr(<<"1", "0", "0">>)), None, Some(db), Some("stopped"))),
               DictEntry(Ct(None, Some(orphan), None, None))>>)
        ELSE Envelope(<<
               DictEntry(Ct(Some(PyInt(200)), Some(db), None, Some("running"))),
               ScalarEntry(PyInt(300))>>)]]

\* one named node; the same (node, id) listed twice under different names;
\* bare scalars, one of them no number
ClusterB ==
    [nodes |-> Envelope(<<Unnamed, OneNode(n1)>>),
     lxc |-> [n \in {n1, n2} |->
        IF n = n1
        THEN BareList(<<
               DictEntry(Ct(Some(PyInt(200)), Some(web), None, None)),
               DictEntry(Ct(Some(PyInt(200)), None, Some(db), None)),
               ScalarEntry(PyStr(<<"x">>)),
               ScalarEntry(PyStr(<<"1", "0", "0">>))>>)
        ELSE OtherShape]]

\* the listing of the second node raises
ClusterC ==
    [nodes |-> BareList(<<OneNode(n1), OneNode(n2)>>),
     lxc |-> [n \in {n1, n2} |->
        IF n = n1
        THEN BareList(<<DictEntry(Ct(Some(PyInt(200)), Some(web), None, None))>>)
        ELSE Raises]]

\* the node list is no list
ClusterD ==
    [nodes |-> OtherShape, lxc |-> [n \in {n1, n2} |-> BareList(<<>>)]]

\* the node list request raises
ClusterE ==
    [nodes |-> Raises, lxc |-> [n \in {n1, n2} |-> BareList(<<>>)]]

Clusters == {ClusterA, ClusterB, ClusterC, ClusterD, ClusterE}

\* the tokens selectors are made of, as typed between the commas
TokenSet == {
    <<"n", "1", ":", "2", "0", "0">>,                 \* n1:200
    <<"n", "2", ":", "2", "0", "0">>,                 \* n2:200
    <<" ", "n", "1", ":", "1", "0", "0">>,            \* " n1:100", padded
    <<"n", "1", ":", "-", "1">>,                  \* n1:-1
    <<"n", "1", ":", "x">>,                       \* n1:x, id no number
    <<"n", "1", "/", "w", "e", "b">>,                  \* n1/web
    <<"2", "0", "0">>,                                 \* 200
    <<"d", "b">>,                                      \* db
    <<"o", "r", "p", "h", "a", "n">>,                                   \* orphan
    <<SuperscriptTwo>>,
    <<>>}

\* the selectors made of at most MaxTokens tokens of a set
SelectorsOf(tokens) ==
    {Join(ts, ",") : ts \in UNION {[1..n -> tokens] : n \in 0..MaxTokens}}

\* the selectors _resolve_targets is tried on
Selectors == SelectorsOf(TokenSet)

\* the tokens and selectors the bulk operations are tried on
BulkTokenSet == {
    <<"n", "1", ":", "2", "0", "0">>,
    <<"2", "0", "0">>,
    <<"d", "b">>,
    <<SuperscriptTwo>>}

BulkSelectors == SelectorsOf(BulkTokenSet)

\* the sets of requests the remote API may fail in a call that issues
\* requests of these kinds for n targets
FaultSets(n, kinds) ==
    {f \in SUBSET ((1..n) \X kinds) : Cardinality(f) <= MaxFaults}

Timeouts == {10, 30}

----------------------------------------------------------------------------
(* Tool calls.  No state is kept from one tool call to the next, so every  *)
(* call is taken from the state in which no call was made yet.             *)

Idle == call = NoArgs

start_container ==
    /\ Idle
    /\ \E selector \in BulkSelectors :
       \E res \in {ResolveTargets(remote, selector)} :
           \E f \in FaultSets(Len(res.targets), {"status.start.post"}) :
               Bulk([NoArgs EXCEPT !.op = "start_container",
                                   !.selector = selector],
                    res, f, "Start Containers", "Failed to start container(s)")

stop_container ==
    /\ Idle
    /\ \E selector \in BulkSelectors :
       \E res \in {ResolveTargets(remote, selector)} :
           \E graceful \in BOOLEAN, timeout \in Timeouts :
           \E f \in FaultSets(Len(res.targets),
                              {IF graceful THEN "status.shutdown.post"
                               ELSE "status.stop.post"}) :
               Bulk([NoArgs EXCEPT !.op = "stop_container",
                                   !.selector = selector,
                                   !.graceful = graceful,
                                   !.timeout_seconds = timeout],
                    res, f, "Stop Containers", "Failed to stop container(s)")

restart_container ==
    /\ Idle
    /\ \E selector \in BulkSelectors :
       \E res \in {ResolveTargets(remote, selector)} :
           \E timeout \in Timeouts :
           \E f \in FaultSets(Len(res.targets), {"status.reboot.post"}) :
               Bulk([NoArgs EXCEPT !.op = "restart_container",
                                   !.selector = selector,
                                   !.timeout_seconds = timeout],
                    res, f, "Restart Containers",
                    "Failed to restart container(s)")

update_container_resources ==
    /\ Idle
    /\ \E selector \in BulkSelectors :
       \E res \in {ResolveTargets(remote, selector)} :
           \E cores \in {None, Some(2)}, memory \in {None, Some(512)},
              swap \in {None, Some(0)}, disk_gb \in {None, Some(1)} :
           \E f \in FaultSets(Len(res.targets),
                      (IF IsNone(cores) /\ IsNone(memory) /\ IsNone(swap)
                       THEN {} ELSE {"config.put"})
                      \cup (IF IsNone(disk_gb) THEN {} ELSE {"resize.put"})) :
               Bulk([NoArgs EXCEPT !.op = "update_container_resources",
                                   !.selector = selector, !.cores = cores,
                                   !.memory = memory, !.swap = swap,
                                   !.disk_gb = disk_gb],
                    res, f, "Update Container Resources",
                    "Failed to update container(s)")

----------------------------------------------------------------------------
(* The state before any tool call *)

NoStats == <<>>

Init ==
    /\ remote \in Clusters
    /\ call = NoArgs
    /\ faults = {}
    /\ requests = <<>>
    /\ resolution = [raised |-> FALSE, targets |-> <<>>, tokens |-> <<>>,
                     inventory |-> <<>>, resolved |-> <<>>]
    /\ result = Rendered("", <<>>)
    /\ stats_in = NoStats
    /\ stats_pre = NoStats
    /\ stats_row = NoStats
    /\ answers = <<>>

----------------------------------------------------------------------------
(* Specification of selector resolution alone: _resolve_targets applied to *)
(* every selector and cluster                                               *)

resolve_targets ==
    /\ Idle
    /\ \E selector \in Selectors :
       \E res \in {ResolveTargets(remote, selector)} :
           /\ call' = [NoArgs EXCEPT !.op = "_resolve_targets",
                                     !.selector = selector]
           /\ resolution' = [raised |-> res.raised, targets |-> res.targets,
                             tokens |-> res.tokens,
                             inventory |-> res.inventory,
                             resolved |-> res.resolved]
           /\ requests' = res.reqs
           /\ UNCHANGED <<remote, faults, result, stats_in, stats_pre,
                          stats_row, answers>>

NextResolve == resolve_targets

SpecResolve == Init /\ [][NextResolve]_vars

----------------------------------------------------------------------------
(* Stats resolution: the block of get_containers that fills the stats      *)
(* fields of one row (lines 205-286).                                      *)
(*                                                                         *)
(* cpu fractions are integers in units of 1e-5, cpu_pct is an integer in   *)
(* units of 1e-5 percent, mem_pct an integer in hundredths of a percent,   *)
(* a cpulimit an integer in tenths.                                        *)

\* a mapping response: bare, enveloped in {"data": ...}, or the request raises
BareDict(d) == [shape |-> "dict", payload |-> d]
DataDict(d) == [shape |-> "envelope", payload |-> d]

\* _as_dict; an exception of the request degrades to {} (lines 128-135)
AsDict(resp, empty) ==
    IF resp.shape \in {"dict", "envelope"} THEN resp.payload ELSE empty

\* the payloads of status/current, config and one rrddata sample
Status(status, cpu, mem, maxmem) ==
    [status |-> status, cpu |-> cpu, mem |-> mem, maxmem |-> maxmem]

Config(memory, ram, maxmem, memoryMiB, swap, cores, cpulimit) ==
    [memory |-> memory, ram |-> ram, maxmem |-> maxmem,
     memoryMiB |-> memoryMiB, swap |-> swap, cores |-> cores,
     cpulimit |-> cpulimit]

Sample(cpu, mem, maxmem) ==
    [kind |-> "dict", cpu |-> cpu, mem |-> mem, maxmem |-> maxmem]

NotADict == [kind |-> "scalar", cpu |-> None, mem |-> None, maxmem |-> None]

EmptyStatus == Status(None, None, None, None)
EmptyConfig == Config(None, None, None, None, None, None, None)

\* _get(d, key, 0) or 0, for a number
OrZero(o) == IF IsNone(o) THEN 0 ELSE Val(o)

\* round(a / b) for a >= 0, b > 0: to the nearest, ties to even
RoundDiv(a, b) ==
    LET q == a \div b
        r == a % b
    IN  IF 2 * r < b THEN q
        ELSE IF 2 * r > b THEN q + 1
        ELSE IF q % 2 = 0 THEN q ELSE q + 1

\* round(cpu_frac * 100.0, 2) (lines 208-209)
CpuPct(cpu_frac) == RoundDiv(cpu_frac * 100, 1000) * 1000

\* lines 208-211
LiveStats(raw_status) ==
    [cpu_pct |-> CpuPct(OrZero(raw_status.cpu)),
     mem_bytes |-> OrZero(raw_status.mem),
     maxmem_bytes |-> OrZero(raw_status.maxmem)]

\* the configured alias as it would be if ram were looked up before memory
CfgMemRamFirst(raw_config) ==
    IF ~IsNone(raw_config.ram) THEN raw_config.ram
    ELSE IF ~IsNone(raw_config.memory) THEN raw_config.memory
    ELSE IF ~IsNone(raw_config.maxmem) THEN raw_config.maxmem
    ELSE raw_config.memoryMiB

\* the first configured alias of the memory limit (lines 218-224)
CfgMem(raw_config) ==
    IF ~IsNone(raw_config.memory) THEN raw_config.memory
    ELSE IF ~IsNone(raw_config.ram) THEN raw_config.ram
    ELSE IF ~IsNone(raw_config.maxmem) THEN raw_config.maxmem
    ELSE raw_config.memoryMiB

\* lines 225-231
MemoryMib(raw_config) ==
    IF IsNone(CfgMem(raw_config)) THEN 0
    ELSE IF ToInt(Val(CfgMem(raw_config))).ok
    THEN ToInt(Val(CfgMem(raw_config))).val
    ELSE 0

\* line 233
UnlimitedMemory(raw_config, memory_mib) ==
    OrZero(raw_config.swap) = 0 /\ memory_mib = 0

\* lines 235-242: the core count, else a positive cpulimit, else None; also
\* None when the core count is no number
Cores(raw_config) ==
    IF ~IsNone(raw_config.cores)
    THEN IF ToInt(Val(raw_config.cores)).ok
         THEN Some([ty |-> "int", v |-> ToInt(Val(raw_config.cores)).val])
         ELSE None
    ELSE IF ~IsNone(raw_config.cpulimit) /\ Val(raw_config.cpulimit) > 0
    THEN Some([ty |-> "float", v |-> Val(raw_config.cpulimit)])
    ELSE None

\* str.lower() of a status
Lower(st) == IF st = "STOPPED" THEN "stopped" ELSE st

\* line 245
StatusStr(raw_status, ct_status) ==
    IF ~IsNone(raw_status.status) /\ Val(raw_status.status) # ""
    THEN Lower(Val(raw_status.status))
    ELSE IF ~IsNone(ct_status) /\ Val(ct_status) # ""
    THEN Lower(Val(ct_status))
    ELSE ""

\* PreFallback as it would be if the configured limit did not stand in for
\* a missing maxmem
PreFallbackNoLimit(ct_status, raw_status, raw_config) ==
    LET live == LiveStats(raw_status)
        memory_mib == MemoryMib(raw_config)
        status_str == StatusStr(raw_status, ct_status)
    IN  [status_str |-> status_str,
         cpu_pct |-> live.cpu_pct,
         mem_bytes |-> IF status_str = "stopped" THEN 0 ELSE live.mem_bytes,
         maxmem_bytes |-> live.maxmem_bytes,
         memory_mib |-> memory_mib,
         cores |-> Cores(raw_config),
         unlimited_memory |-> UnlimitedMemory(raw_config, memory_mib)]

\* the locals at line 259: the live values after the stopped override
\* (lines 247-251) and the configured limit standing in for a missing
\* maxmem (lines 253-257)
PreFallback(ct_status, raw_status, raw_config) ==
    LET live == LiveStats(raw_status)
        memory_mib == MemoryMib(raw_config)
        status_str == StatusStr(raw_status, ct_status)
    IN  [status_str |-> status_str,
         cpu_pct |-> live.cpu_pct,
         mem_bytes |-> IF status_str = "stopped" THEN 0 ELSE live.mem_bytes,
         maxmem_bytes |-> IF live.maxmem_bytes = 0 /\ memory_mib > 0
                          THEN memory_mib * 1024 * 1024
                          ELSE live.maxmem_bytes,
         memory_mib |-> memory_mib,
         cores |-> Cores(raw_config),
         unlimited_memory |-> UnlimitedMemory(raw_config, memory_mib)]

NoSample == [found |-> FALSE, cpu_pct |-> 0, mem_bytes |-> 0, maxmem_bytes |-> 0]

\* _rrd_last as it would be without the conversion to percent
RrdLastNoScale(resp) ==
    LET rrd == AsList(resp)
    IN  IF rrd = <<>> \/ rrd[Len(rrd)].kind # "dict" THEN NoSample
        ELSE [found |-> TRUE,
              cpu_pct |-> OrZero(rrd[Len(rrd)].cpu),
              mem_bytes |-> OrZero(rrd[Len(rrd)].mem),
              maxmem_bytes |-> OrZero(rrd[Len(rrd)].maxmem)]

\* _rrd_last (lines 109-122); found = FALSE stands for (None, None, None)
RrdLast(resp) ==
    LET rrd == AsList(resp)
    IN  IF rrd = <<>> \/ rrd[Len(rrd)].kind # "dict" THEN NoSample
        ELSE [found |-> TRUE,
              cpu_pct |-> OrZero(rrd[Len(rrd)].cpu) * 100,
              mem_bytes |-> OrZero(rrd[Len(rrd)].mem),
              maxmem_bytes |-> OrZero(rrd[Len(rrd)].maxmem)]

\* the condition of the fallback as it would be if the cpu share were not
\* looked at
NeedsRrdNoCpu(pre) == pre.mem_bytes = 0 \/ pre.maxmem_bytes = 0

\* line 260
NeedsRrd(pre) == pre.mem_bytes = 0 \/ pre.maxmem_bytes = 0 \/ pre.cpu_pct = 0

\* the fallback as it would be if the sample replaced the three values
\* whenever there is one
RrdFallbackOverwrite(pre, last) ==
    IF ~NeedsRrd(pre) \/ ~last.found THEN pre
    ELSE [pre EXCEPT !.cpu_pct = last.cpu_pct,
                     !.mem_bytes = last.mem_bytes,
                     !.maxmem_bytes = IF last.maxmem_bytes # 0
                                      THEN last.maxmem_bytes ELSE @]

\* the fallback as it would be if the limit in MiB were left as configured
RrdFallbackNoDerive(pre, last) ==
    IF ~NeedsRrd(pre) \/ ~last.found THEN pre
    ELSE LET fill_maxmem == pre.maxmem_bytes = 0 /\ last.maxmem_bytes # 0
         IN  [pre EXCEPT
                !.cpu_pct = IF @ = 0 THEN last.cpu_pct ELSE @,
                !.mem_bytes = IF @ = 0 THEN last.mem_bytes ELSE @,
                !.maxmem_bytes = IF fill_maxmem THEN last.maxmem_bytes ELSE @]

\* lines 260-272: the sample fills the values that are zero
RrdFallback(pre, last) ==
    IF ~NeedsRrd(pre) \/ ~last.found THEN pre
    ELSE LET fill_maxmem == pre.maxmem_bytes = 0 /\ last.maxmem_bytes # 0
         IN  [pre EXCEPT
                !.cpu_pct = IF @ = 0 THEN last.cpu_pct ELSE @,
                !.mem_bytes = IF @ = 0 THEN last.mem_bytes ELSE @,
                !.maxmem_bytes = IF fill_maxmem THEN last.maxmem_bytes ELSE @,
                !.memory_mib = IF fill_maxmem /\ @ = 0
                               THEN RoundDiv(last.maxmem_bytes, 1024 * 1024)
                               ELSE @]

\* the quotient a * 10^digits / b and what is left, digit by digit
RECURSIVE LongDiv(_, _, _, _)
LongDiv(q, r, b, digits) ==
    IF digits = 0 THEN [q |-> q, r |-> r]
    ELSE LongDiv(10 * q + (10 * r) \div b, (10 * r) % b, b, digits - 1)

\* round(mem_bytes / maxmem_bytes * 100.0, 2), in hundredths of a percent
Pct(mem_bytes, maxmem_bytes) ==
    LET d == LongDiv(mem_bytes \div maxmem_bytes, mem_bytes % maxmem_bytes,
                     maxmem_bytes, 4)
    IN  IF 2 * d.r < maxmem_bytes THEN d.q
        ELSE IF 2 * d.r > maxmem_bytes THEN d.q + 1
        ELSE IF d.q % 2 = 0 THEN d.q ELSE d.q + 1

\* mem_pct as it would be with 0 in place of None
MemPctZero(mem_bytes, maxmem_bytes) ==
    IF maxmem_bytes > 0 THEN Some(Pct(mem_bytes, maxmem_bytes)) ELSE Some(0)

\* lines 280-284
MemPct(mem_bytes, maxmem_bytes) ==
    IF maxmem_bytes > 0 THEN Some(Pct(mem_bytes, maxmem_bytes)) ELSE None

\* lines 274-286
StatsRow(final) ==
    [cores |-> final.cores,
     memory |-> final.memory_mib,
     cpu_pct |-> final.cpu_pct,
     mem_bytes |-> final.mem_bytes,
     maxmem_bytes |-> final.maxmem_bytes,
     mem_pct |-> MemPct(final.mem_bytes, final.maxmem_bytes),
     unlimited_memory |-> final.unlimited_memory]

\* the requests of lines 129, 133 and 112
StatsRequests(node, vmid, pre) ==
    <<Req("status.current.get", node, Some(vmid), NoParams),
      Req("config.get", node, Some(vmid), NoParams)>>
    \o (IF NeedsRrd(pre)
        THEN <<Req("rrddata.get", node, Some(vmid), NoParams)>> ELSE <<>>)

----------------------------------------------------------------------------
(* The responses stats resolution is tried on *)

StatusResponses ==
    {Raises,
     DataDict(Status(Some("stopped"), Some(1234), Some(500000),
                     Some(2000000)))} \cup
    {BareDict(Status(st, cpu, mem, maxmem)) :
        st \in {None, Some("running"), Some("stopped")},
        cpu \in {None, Some(4), Some(1234)},
        mem \in {None, Some(500000)},
        maxmem \in {None, Some(2000000)}}

ConfigResponses ==
    {Raises} \cup
    {BareDict(Config(m[1], m[2], None, None, swap, None, None)) :
        m \in {<<None, None>>, <<None, Some(PyInt(32))>>,
               <<Some(PyInt(0)), None>>, <<Some(PyInt(0)), Some(PyInt(32))>>,
               <<Some(PyInt(64)), None>>, <<Some(PyStr(<<"x">>)), None>>},
        swap \in {None, Some(0), Some(512)}} \cup
    {BareDict(Config(Some(PyStr(<<"6", "4">>)), None, None, None, Some(512),
                     c[1], c[2])) :
        c \in {<<Some(PyInt(2)), Some(15)>>, <<None, Some(15)>>,
               <<None, Some(0)>>, <<Some(PyStr(<<"x">>)), None>>}} \cup
    {BareDict(Config(m[1], m[2], m[3], m[4], Some(512), None, None)) :
        m \in {<<None, None, Some(PyInt(16)), Some(PyInt(8))>>,
               <<None, None, None, Some(PyInt(8))>>,
               <<Some(PyStr(<<"x">>)), Some(PyInt(32)), Some(PyInt(16)),
                 None>>}}

Samples ==
    {Sample(cpu, mem, maxmem) :
        cpu \in {None, Some(2500)},
        mem \in {None, Some(1000)},
        maxmem \in {None, Some(67108864), Some(300000), Some(2621440)}}

RrdResponses ==
    {Raises, BareList(<<>>), BareList(<<Sample(Some(2500), Some(1000), None),
                                        NotADict>>),
     Envelope(<<Sample(None, None, None),
                Sample(Some(2500), Some(1000), Some(67108864))>>)}
    \cup {BareList(<<sm>>) : sm \in Samples}

CtStatuses == {None, Some("stopped"), Some("STOPPED")}

----------------------------------------------------------------------------
(* Specification of stats resolution: the block applied to one container   *)
(* of node n1 under every combination of responses                         *)

get_containers_stats ==
    /\ Idle
    /\ \E ct_status \in CtStatuses, status \in StatusResponses,
          config \in ConfigResponses, rrd \in RrdResponses :
       \E pre \in {PreFallback(ct_status, AsDict(status, EmptyStatus),
                               AsDict(config, EmptyConfig))} :
           /\ call' = [NoArgs EXCEPT !.op = "get_containers"]
           /\ stats_in' = [ct_status |-> ct_status, status |-> status,
                           config |-> config, rrd |-> rrd]
           /\ stats_pre' = pre
           /\ stats_row' = StatsRow(RrdFallback(pre, RrdLast(rrd)))
           /\ requests' = StatsRequests(n1, 200, pre)
           /\ UNCHANGED <<remote, faults, resolution, result, answers>>

\* the cluster is fixed: stats resolution does not read the inventory
InitStats == Init /\ remote = ClusterA

NextStats == get_containers_stats

SpecStats == InitStats /\ [][NextStats]_vars

----------------------------------------------------------------------------
(* get_containers *)

\* _list_ct_pairs for one node (lines 80-90)
ListCtPairsNode(r, node) ==
    LET req == Req("lxc.get", node, None, NoParams)
    IN  IF r.lxc[node].shape = "raise"
        THEN [raised |-> TRUE, pairs |-> <<>>, reqs |-> <<req>>]
        ELSE [raised |-> FALSE,
              pairs |-> CoerceEntries(node, AsList(r.lxc[node])),
              reqs |-> <<req>>]

\* _list_ct_pairs (lines 77-107)
ListCtPairsOf(r, node) ==
    IF Truthy(node) THEN ListCtPairsNode(r, Val(node)) ELSE ListCtPairs(r)

\* vmid_int (lines 190-196)
VmidInt(ct) ==
    IF ~IsNone(ct.vmid) /\ ToInt(Val(ct.vmid)).ok
    THEN Some(ToInt(Val(ct.vmid)).val)
    ELSE None

\* str(vmid_val)
VmidStr(v) == IF v.ty = "int" THEN IntToStr(v.i) ELSE v.s

\* the name of a row as it would be if the hostname were not consulted
RowNameNoHostname(ct) ==
    IF Truthy(ct.name) THEN Val(ct.name)
    ELSE IF ~IsNone(ct.vmid) THEN <<"c", "t", "-">> \o VmidStr(Val(ct.vmid))
    ELSE <<"c", "t", "-", "?">>

\* the name of a row (line 200)
RowName(ct) ==
    IF Truthy(ct.name) THEN Val(ct.name)
    ELSE IF Truthy(ct.hostname) THEN Val(ct.hostname)
    ELSE IF ~IsNone(ct.vmid) THEN <<"c", "t", "-">> \o VmidStr(Val(ct.vmid))
    ELSE <<"c", "t", "-", "?">>

\* how the remote API answers the three requests about one container
Answer(status, config, rrd) ==
    [status |-> status, config |-> config, rrd |-> rrd]

\* _status_and_config as it would be with one try block around both
\* requests: a failing status request leaves the configuration unread
StatusAndConfigCoupled(a) ==
    [raw_status |-> AsDict(a.status, EmptyStatus),
     raw_config |-> IF a.status.shape = "raise" THEN EmptyConfig
                    ELSE AsDict(a.config, EmptyConfig)]

\* _status_and_config (lines 124-136)
StatusAndConfig(a) ==
    [raw_status |-> AsDict(a.status, EmptyStatus),
     raw_config |-> AsDict(a.config, EmptyConfig)]

\* Row as it would be if the raw payloads were attached whatever the style
RowRawAlways(c, pair, ans) ==
    LET ct == pair.ct
        vmid_int == VmidInt(ct)
        with_stats == c.include_stats /\ ~IsNone(vmid_int)
        a == ans[Val(vmid_int)]
        sc == StatusAndConfig(a)
        pre == PreFallback(ct.status, sc.raw_status, sc.raw_config)
    IN  [rec |-> [vmid |-> IF IsNone(ct.vmid) THEN None
                           ELSE Some(VmidStr(Val(ct.vmid))),
                  name |-> RowName(ct),
                  node |-> pair.node,
                  status |-> ct.status,
                  stats |-> IF with_stats
                            THEN Some(StatsRow(RrdFallback(pre, RrdLast(a.rrd))))
                            ELSE None,
                  raw |-> IF with_stats /\ c.include_raw
                          THEN Some(sc) ELSE None],
         reqs |-> IF with_stats
                  THEN StatsRequests(pair.node, Val(vmid_int), pre)
                  ELSE <<>>]

\* Row as it would be if the stats were fetched whether asked for or not
RowStatsAlways(c, pair, ans) ==
    LET ct == pair.ct
        vmid_int == VmidInt(ct)
        with_stats == ~IsNone(vmid_int)
        a == ans[Val(vmid_int)]
        sc == StatusAndConfig(a)
        pre == PreFallback(ct.status, sc.raw_status, sc.raw_config)
    IN  [rec |-> [vmid |-> IF IsNone(ct.vmid) THEN None
                           ELSE Some(VmidStr(Val(ct.vmid))),
                  name |-> RowName(ct),
                  node |-> pair.node,
                  status |-> ct.status,
                  stats |-> IF with_stats /\ c.include_stats
                            THEN Some(StatsRow(RrdFallback(pre, RrdLast(a.rrd))))
                            ELSE None,
                  raw |-> IF with_stats /\ c.include_stats /\ c.include_raw
                             /\ c.format_style # "json"
                          THEN Some(sc) ELSE None],
         reqs |-> IF with_stats
                  THEN StatsRequests(pair.node, Val(vmid_int), pre)
                  ELSE <<>>]

\* the body of the loop of get_containers for one pair (lines 189-293):
\* the row and the requests issued for it
Row(c, pair, ans) ==
    LET ct == pair.ct
        vmid_int == VmidInt(ct)
        with_stats == c.include_stats /\ ~IsNone(vmid_int)
        a == ans[Val(vmid_int)]
        sc == StatusAndConfig(a)
        pre == PreFallback(ct.status, sc.raw_status, sc.raw_config)
    IN  [rec |-> [vmid |-> IF IsNone(ct.vmid) THEN None
                           ELSE Some(VmidStr(Val(ct.vmid))),
                  name |-> RowName(ct),
                  node |-> pair.node,
                  status |-> ct.status,
                  stats |-> IF with_stats
                            THEN Some(StatsRow(RrdFallback(pre, RrdLast(a.rrd))))
                            ELSE None,
                  raw |-> IF with_stats /\ c.include_raw
                             /\ c.format_style # "json"
                          THEN Some(sc) ELSE None],
         reqs |-> IF with_stats
                  THEN StatsRequests(pair.node, Val(vmid_int), pre)
                  ELSE <<>>]

\* the requests of the rows from the i-th on, after reqs
RECURSIVE RowRequests(_, _, _)
RowRequests(rows, i, reqs) ==
    IF i > Len(rows) THEN reqs
    ELSE RowRequests(rows, i + 1, reqs \o rows[i].reqs)

\* the rows, rendered by _json_fmt or _render_pretty
Listing(rows) ==
    [kind |-> "rows", action |-> "", error |-> <<>>, results |-> rows]

\* an exception that leaves the operation
Propagated(e) ==
    [kind |-> "raised", action |-> e.type, error |-> e.text,
     results |-> <<>>]

\* get_containers as it would be without its outermost handler
GetContainersNoHandler(c, r, ans) ==
    LET inv == ListCtPairsOf(r, c.node)
        rows == [i \in 1..Len(inv.pairs) |-> Row(c, inv.pairs[i], ans)]
    IN  IF inv.raised
        THEN [result |-> Propagated(RemoteError),
              reqs |-> inv.reqs, raised |-> TRUE, pairs |-> <<>>]
        ELSE [result |-> Listing([i \in 1..Len(rows) |-> rows[i].rec]),
              reqs |-> RowRequests(rows, 1, inv.reqs),
              raised |-> FALSE, pairs |-> inv.pairs]

\* get_containers (lines 185-301): what it returns, the requests it
\* issues, and whether its enumeration raised
GetContainers(c, r, ans) ==
    LET inv == ListCtPairsOf(r, c.node)
        rows == [i \in 1..Len(inv.pairs) |-> Row(c, inv.pairs[i], ans)]
    IN  IF inv.raised
        THEN [result |-> Err("Failed to list containers", RemoteError),
              reqs |-> inv.reqs, raised |-> TRUE, pairs |-> <<>>]
        ELSE [result |-> Listing([i \in 1..Len(rows) |-> rows[i].rec]),
              reqs |-> RowRequests(rows, 1, inv.reqs),
              raised |-> FALSE, pairs |-> inv.pairs]

\* the answers get_containers is tried on: all three requests answered,
\* the status request failing, the config request failing, all failing
LiveStatus ==
    BareDict(Status(Some("running"), Some(1234), Some(500000), Some(2000000)))

Limits ==
    BareDict(Config(Some(PyInt(64)), None, None, None, Some(512),
                    Some(PyInt(2)), None))

History == BareList(<<Sample(Some(2500), Some(1000), Some(67108864))>>)

Answers == {Answer(LiveStatus, Limits, History),
            Answer(Raises, Limits, History),
            Answer(LiveStatus, Raises, History),
            Answer(Raises, Raises, Raises)}

get_containers ==
    /\ Idle
    /\ \E node \in {None, Some(n1), Some(n2)},
          include_stats \in BOOLEAN, include_raw \in BOOLEAN,
          format_style \in {"pretty", "json"},
          ans \in [{100, 200, 300} -> Answers] :
       \E c \in {[NoArgs EXCEPT !.op = "get_containers", !.node = node,
                                !.include_stats = include_stats,
                                !.include_raw = include_raw,
                                !.format_style = format_style]} :
       \E out \in {GetContainers(c, remote, ans)} :
           /\ call' = c
           /\ answers' = ans
           /\ requests' = out.reqs
           /\ result' = out.result
           /\ resolution' = [resolution EXCEPT !.raised = out.raised,
                                               !.inventory = out.pairs]
           /\ UNCHANGED <<remote, faults, stats_in, stats_pre, stats_row>>

----------------------------------------------------------------------------
(* Specification of the tool calls *)

Next ==
    \/ start_container
    \/ stop_container
    \/ restart_container
    \/ update_container_resources
    \/ get_containers

Spec == Init /\ [][Next]_vars

----------------------------------------------------------------------------
(* create_container and delete_container *)

\* a request that raises an exception with a text, a text being a
\* sequence of words
RaisesWith(text) == [shape |-> "raise", payload |-> text]

\* str.lower(), word by word
LowerWord(w) ==
    IF w = "Not" THEN "not" ELSE IF w = "Found" THEN "found" ELSE w

\* phrase in str(e).lower()
Mentions(text, phrase) ==
    \E k \in 1..(Len(text) - Len(phrase) + 1) :
        \A j \in 1..Len(phrase) : LowerWord(text[k + j - 1]) = phrase[j]

DoesNotExist == <<"does", "not", "exist">>
NotFound == <<"not", "found">>

\* the payload of status/current that delete_container reads
CtState(status, name, hostname) ==
    [status |-> status, name |-> name, hostname |-> hostname]

\* ct_status.get(key) on the response as it arrived (lines 662-663): a
\* {"data": ...} envelope has no such key
GetKey(resp, value) == IF resp.shape = "dict" THEN value ELSE None

\* the exception of the status check (lines 659-668): the request raised,
\* or the response has no get()
StatusCheckExc(resp) ==
    IF resp.shape = "raise" THEN Exc("Exception", resp.payload)
    ELSE Exc("AttributeError", <<"object", "has", "no", "attribute", "get">>)

\* the text delete_container returns (lines 675-696): whether it stopped
\* the container first, and the name it shows
Deleted(stopped, ct_name) ==
    [kind |-> "text", action |-> IF stopped THEN "stopped and deleted"
                                 ELSE "deleted",
     error |-> <<>>, results |-> <<ct_name>>]

\* delete_container (lines 657-702): what it returns or raises, and the
\* requests it issues
DeleteContainer(c, resp, f) ==
    LET check == Req("status.current.get", Val(c.node), Some(c.vmid), NoParams)
        stop == Req("status.stop.post", Val(c.node), Some(c.vmid), NoParams)
        delete == Req("delete", Val(c.node), Some(c.vmid), NoParams)
        answered == resp.shape \in {"dict", "envelope"}
        current_status == GetKey(resp, resp.payload.status)
        name == GetKey(resp, resp.payload.name)
        hostname == GetKey(resp, resp.payload.hostname)
        ct_name == IF Truthy(name) THEN Val(name)
                   ELSE IF Truthy(hostname) THEN Val(hostname)
                   ELSE <<"C", "T", "-">> \o c.vmid
        running == current_status = Some("running")
        e == StatusCheckExc(resp)
    IN  IF ~answered
        THEN IF Mentions(e.text, DoesNotExist) \/ Mentions(e.text, NotFound)
             THEN [result |-> Propagated(Exc("ValueError",
                                             <<"not", "found", "on", "node">>)),
                   reqs |-> <<check>>]
             ELSE [result |-> Err("delete Container", e), reqs |-> <<check>>]
        ELSE IF running /\ ~c.force
        THEN [result |-> Propagated(Exc("ValueError",
                                        <<"is", "currently", "running">>)),
              reqs |-> <<check>>]
        ELSE IF running /\ Fails(f, 1, "status.stop.post")
        THEN [result |-> Err("delete Container", RemoteError),
              reqs |-> <<check, stop>>]
        ELSE IF Fails(f, 1, "delete")
        THEN [result |-> Err("delete Container", RemoteError),
              reqs |-> <<check>> \o (IF running THEN <<stop>> ELSE <<>>)
                       \o <<delete>>]
        ELSE [result |-> Deleted(running, ct_name),
              reqs |-> <<check>> \o (IF running THEN <<stop>> ELSE <<>>)
                       \o <<delete>>]

\* one entry of a node's storage listing
Storage(name, content) == [storage |-> name, content |-> content]

\* "rootdir" in s.get("content", "")
HoldsRootdir(st) ==
    ~IsNone(st.content)
    /\ \E k \in 1..Len(Val(st.content)) : Val(st.content)[k] = "rootdir"

\* the first of some positions of a list
Least(hits) == CHOOSE k \in hits : \A j \in hits : k <= j

\* the storage create_container settles on when none is given
\* (lines 568-581): local-lvm if it holds container root disks, else the
\* first storage that does
AutoDetect(list) ==
    LET any == {k \in 1..Len(list) : HoldsRootdir(list[k])}
        lvm == {k \in any : list[k].storage = "local-lvm"}
    IN  IF lvm # {} THEN Some(list[Least(lvm)].storage)
        ELSE IF any # {} THEN Some(list[Least(any)].storage)
        ELSE None

\* storage_info[storage]: the last entry of that name (lines 563-565)
StorageInfo(list, name) ==
    LET hits == {k \in 1..Len(list) : list[k].storage = name}
    IN  IF hits = {} THEN None
        ELSE Some(list[CHOOSE k \in hits : \A j \in hits : k >= j])

\* the text create_container returns (lines 608-628)
Created(storage) ==
    [kind |-> "text", action |-> "created", error |-> <<>>,
     results |-> <<storage>>]

\* the parameters of the create request (lines 590-606)
CreateParams(c, storage) ==
    [vmid |-> c.vmid, hostname |-> web, cores |-> 1, memory |-> 512,
     swap |-> 512, storage |-> storage, rootfs |-> <<storage, ":", "8">>]

\* create_container (lines 553-635): what it returns or raises, and the
\* requests it issues
CreateContainer(c, config, storages, f) ==
    LET exists == Req("config.get", Val(c.node), Some(c.vmid), NoParams)
        listing == Req("storage.get", Val(c.node), None, NoParams)
        list == storages.payload
        storage == IF IsNone(c.storage) THEN AutoDetect(list) ELSE c.storage
        info == StorageInfo(list, Val(storage))
        raised(text) == [result |-> Propagated(Exc("ValueError", text)),
                         reqs |-> <<exists, listing>>]
    IN  IF config.shape # "raise"
        THEN [result |-> Propagated(Exc("ValueError", <<"already", "exists">>)),
              reqs |-> <<exists>>]
        ELSE IF ~Mentions(config.payload, DoesNotExist)
        THEN [result |-> Err("create Container",
                             Exc("Exception", config.payload)),
              reqs |-> <<exists>>]
        ELSE IF storages.shape = "raise"
        THEN [result |-> Err("create Container", RemoteError),
              reqs |-> <<exists, listing>>]
        ELSE IF storages.shape # "list"
        THEN [result |-> Err("create Container",
                             Exc("TypeError", <<"not", "a", "list">>)),
              reqs |-> <<exists, listing>>]
        ELSE IF IsNone(storage)
        THEN raised(<<"No", "suitable", "storage">>)
        ELSE IF IsNone(info)
        THEN raised(<<"Storage", "not", "found">>)
        ELSE IF ~HoldsRootdir(Val(info))
        THEN raised(<<"Storage", "does", "not", "support", "rootfs">>)
        ELSE [result |-> IF Fails(f, 1, "lxc.create")
                         THEN Err("create Container", RemoteError)
                         ELSE Created(Val(storage)),
              reqs |-> <<exists, listing,
                         Req("lxc.create", Val(c.node), None,
                             CreateParams(c, Val(storage)))>>]

----------------------------------------------------------------------------
(* The responses create_container and delete_container are tried on *)

StatusCheckResponses ==
    {OtherShape,
     RaisesWith(<<"Configuration", "file", "does", "not", "exist">>),
     RaisesWith(<<"404", "Not", "Found">>),
     RaisesWith(<<"timed", "out">>)}
    \cup {BareDict(CtState(st, name, None)) :
            st \in {None, Some("running"), Some("stopped")},
            name \in {None, Some(web)}}
    \cup {DataDict(CtState(st, None, hostname)) :
            st \in {None, Some("running"), Some("stopped")},
            hostname \in {None, Some(db)}}

ExistsResponses ==
    {BareDict(EmptyConfig), DataDict(EmptyConfig),
     RaisesWith(<<"Configuration", "file", "does", "not", "exist">>),
     RaisesWith(<<"timed", "out">>)}

StorageLists ==
    {<<Storage("local", Some(<<"images", "vztmpl">>)),
       Storage("local-lvm", Some(<<"rootdir", "images">>))>>,
     <<Storage("nfs", Some(<<"rootdir">>)),
       Storage("local", Some(<<"rootdir">>)),
       Storage("local-lvm", Some(<<"images">>))>>,
     <<Storage("nfs", Some(<<"rootdir">>)),
       Storage("local-lvm", Some(<<"rootdir">>))>>,
     <<Storage("local", None)>>}

StorageResponses ==
    {Raises} \cup {BareList(l) : l \in StorageLists}
    \cup {Envelope(l) : l \in StorageLists}

----------------------------------------------------------------------------
(* Specification of create_container and delete_container *)

create_container ==
    /\ Idle
    /\ \E config \in ExistsResponses, storages \in StorageResponses,
          storage \in {None, Some("local"), Some("missing")},
          f \in SUBSET {<<1, "lxc.create">>} :
       \E c \in {[NoArgs EXCEPT !.op = "create_container",
                                !.node = Some(n1), !.vmid = <<"2", "0", "0">>,
                                !.storage = storage]} :
       \E out \in {CreateContainer(c, config, storages, f)} :
           /\ call' = c
           /\ faults' = f
           /\ answers' = [status |-> Raises, config |-> config,
                          storages |-> storages]
           /\ requests' = out.reqs
           /\ result' = out.result
           /\ UNCHANGED <<remote, resolution, stats_in, stats_pre, stats_row>>

delete_container ==
    /\ Idle
    /\ \E status \in StatusCheckResponses, force \in BOOLEAN,
          f \in SUBSET {<<1, "status.stop.post">>, <<1, "delete">>} :
       \E c \in {[NoArgs EXCEPT !.op = "delete_container",
                                !.node = Some(n1), !.vmid = <<"2", "0", "0">>,
                                !.force = force]} :
       \E out \in {DeleteContainer(c, status, f)} :
           /\ call' = c
           /\ faults' = f
           /\ answers' = [status |-> status, config |-> Raises,
                          storages |-> Raises]
           /\ requests' = out.reqs
           /\ result' = out.result
           /\ UNCHANGED <<remote, resolution, stats_in, stats_pre, stats_row>>

InitLifecycle == Init /\ remote = ClusterA

NextLifecycle ==
    \/ create_container
    \/ delete_container

SpecLifecycle == InitLifecycle /\ [][NextLifecycle]_vars

----------------------------------------------------------------------------
(* Properties of the bulk operations and of selector resolution *)

\* a tool call was made and its _resolve_targets returned a list
Resolved == call.op # "" /\ ~resolution.raised

\* the inventory and the tokens the call's _resolve_targets worked on
Inventory == resolution.inventory
CallTokens == resolution.tokens

Key(t) == <<t.node, t.vmid>>

\* the inventory holds a record of that node whose id field is that number
InInventory(node, vmid) ==
    \E k \in 1..Len(Inventory) :
        /\ Inventory[k].node = node
        /\ ~IsNone(Inventory[k].ct.vmid)
        /\ ToInt(Val(Inventory[k].ct.vmid)).ok
        /\ ToInt(Val(Inventory[k].ct.vmid)).val = vmid

\* the enumeration of the call raised: a listing request found no answer
EnumerationRaised ==
    \E k \in 1..Len(requests) :
        /\ requests[k].kind \in {"nodes.get", "lxc.get"}
        /\ IF requests[k].kind = "nodes.get"
           THEN remote.nodes.shape = "raise"
           ELSE remote.lxc[requests[k].node].shape = "raise"

\* a request of the call for its i-th target raised
RaisedFor(i) == \E kind \in {"status.start.post", "status.stop.post",
                             "status.shutdown.post", "status.reboot.post",
                             "config.put", "resize.put"} : <<i, kind>> \in faults

\* C1: a bulk operation over n >= 1 targets returns n entries, entry i
\* describes target i, and entry i is ok=false with an error text exactly
\* when a request for target i raised, whatever happened to the others.
C1_BulkIsolation ==
    (Resolved /\ resolution.targets # <<>>) =>
        /\ result.kind = "results"
        /\ Len(result.results) = Len(resolution.targets)
        /\ \A i \in 1..Len(resolution.targets) :
              LET e == result.results[i]
                  t == resolution.targets[i]
              IN  /\ e.node = t.node /\ e.vmid = t.vmid /\ e.name = t.label
                  /\ e.ok = ~RaisedFor(i)
                  /\ (~e.ok) = ~IsNone(e.error)
                  /\ e.ok = ~IsNone(e.message)

\* three targets, the request of the second raised, the others did not
C1_Witness ==
    /\ Resolved
    /\ call.op \in {"start_container", "update_container_resources"}
    /\ Len(resolution.targets) = 3
    /\ result.kind = "results" /\ Len(result.results) = 3
    /\ result.results[1].ok /\ ~result.results[2].ok /\ result.results[3].ok

\* the (node, id) a node:id token names, when its id is a number
NamedBy(tok) ==
    LET p == SplitFirst(tok, ":") IN <<p[1], ParseInt(p[2]).val>>

NamesPair(tok) ==
    /\ TokenKind(tok) = "node:id"
    /\ ParseInt(SplitFirst(tok, ":")[2]).ok

\* C7: a selector of node:id tokens resolves to exactly the pairs that a
\* token names and the inventory holds, each once, in the order of the
\* first token naming them.
C7_NodeIdExact ==
    (/\ Resolved
     /\ \A k \in 1..Len(CallTokens) : TokenKind(CallTokens[k]) = "node:id") =>
        LET ts == resolution.targets
            \* the first token that names the pair of target i
            first(i) == CHOOSE k \in 1..Len(CallTokens) :
                           /\ NamesPair(CallTokens[k])
                           /\ NamedBy(CallTokens[k]) = Key(ts[i])
                           /\ \A j \in 1..(k - 1) :
                                  ~(NamesPair(CallTokens[j])
                                    /\ NamedBy(CallTokens[j]) = Key(ts[i]))
        IN  /\ \A i \in 1..Len(ts) :
                  /\ InInventory(ts[i].node, ts[i].vmid)
                  /\ \E k \in 1..Len(CallTokens) :
                         NamesPair(CallTokens[k])
                         /\ NamedBy(CallTokens[k]) = Key(ts[i])
            /\ \A k \in 1..Len(CallTokens) :
                  (NamesPair(CallTokens[k])
                   /\ InInventory(NamedBy(CallTokens[k])[1],
                                  NamedBy(CallTokens[k])[2])) =>
                      \E i \in 1..Len(ts) : Key(ts[i]) = NamedBy(CallTokens[k])
            /\ \A i, j \in 1..Len(ts) : i < j =>
                  Key(ts[i]) # Key(ts[j]) /\ first(i) < first(j)

\* the number an all-digit token of ASCII digits stands for
IsIdToken(tok) == TokenKind(tok) = "id" /\ ParseInt(tok).ok

\* C8: an all-digit token resolves to every inventory entry with that id,
\* one target per node that has it, not only the first.
C8_IdOnEveryNode ==
    Resolved =>
        \A k \in 1..Len(CallTokens) : IsIdToken(CallTokens[k]) =>
            \A j \in 1..Len(Inventory) :
                InInventory(Inventory[j].node, ParseInt(CallTokens[k]).val) =>
                    \E i \in 1..Len(resolution.targets) :
                        Key(resolution.targets[i]) =
                            <<Inventory[j].node, ParseInt(CallTokens[k]).val>>

\* the token 200 resolved to container 200 of both nodes
C8_Witness ==
    /\ Resolved
    /\ \E k \in 1..Len(CallTokens) :
           IsIdToken(CallTokens[k]) /\ ParseInt(CallTokens[k]).val = 200
    /\ InInventory(n1, 200) /\ InInventory(n2, 200)
    /\ \E i, j \in 1..Len(resolution.targets) :
           /\ Key(resolution.targets[i]) = <<n1, 200>>
           /\ Key(resolution.targets[j]) = <<n2, 200>>

\* the targets matched by the tokens, token by token, before deduplication
Matches == resolution.resolved

FirstMatch(key) == CHOOSE k \in 1..Len(Matches) :
                       /\ Key(Matches[k]) = key
                       /\ \A j \in 1..(k - 1) : Key(Matches[j]) # key

\* C9: whatever the kinds of the tokens, the returned list holds no
\* (node, id) twice, holds every matched (node, id), and is in the order in
\* which the (node, id) were first matched scanning the tokens left to right.
C9_UniqueFirstSeen ==
    (Resolved /\ call.selector # <<>>) =>
        LET ts == resolution.targets
        IN  /\ \A i, j \in 1..Len(ts) : i # j => Key(ts[i]) # Key(ts[j])
            /\ \A i \in 1..Len(ts) :
                  \E k \in 1..Len(Matches) : Key(Matches[k]) = Key(ts[i])
            /\ \A k \in 1..Len(Matches) :
                  \E i \in 1..Len(ts) : Key(ts[i]) = Key(Matches[k])
            /\ \A i, j \in 1..Len(ts) : i < j =>
                  FirstMatch(Key(ts[i])) < FirstMatch(Key(ts[j]))

\* two tokens of different kinds matched the same container, and a later
\* match of the first token's container did not move it
C9_Witness ==
    /\ Resolved
    /\ Len(CallTokens) = 2
    /\ TokenKind(CallTokens[1]) # TokenKind(CallTokens[2])
    /\ Len(Matches) > Len(resolution.targets)
    /\ Len(resolution.targets) >= 2

\* C10: when the enumeration returned an inventory, _resolve_targets returns
\* a list whatever the tokens: a token that matches nothing or cannot be
\* parsed contributes no target and does not fail the resolution.
C10_NeverFails ==
    (call.op # "" /\ ~EnumerationRaised) => ~resolution.raised

----------------------------------------------------------------------------
(* Properties of stats resolution *)

StatsDone == call.op = "get_containers"

\* the historical fetch answered with a list whose last element is a sample
HasSample ==
    /\ AsList(stats_in.rrd) # <<>>
    /\ AsList(stats_in.rrd)[Len(AsList(stats_in.rrd))].kind = "dict"

LastSample == AsList(stats_in.rrd)[Len(AsList(stats_in.rrd))]

ConfiguredSwap == OrZero(AsDict(stats_in.config, EmptyConfig).swap)

StatsFields == {"cpu_pct", "mem_bytes", "maxmem_bytes"}

\* C2: a container whose resolved status is "stopped" has mem_bytes 0 in
\* its row, whatever the live status, the configuration and the historical
\* sample say.
C2_StoppedMemZero ==
    (StatsDone /\ stats_pre.status_str = "stopped")
        => stats_row.mem_bytes = 0

\* C3: in the row, unlimited_memory is true iff the configured swap is 0
\* (an unconfigured swap counting as 0) and the row's memory is 0, memory
\* being the value after the fallback.
C3_UnlimitedIff ==
    StatsDone =>
        (stats_row.unlimited_memory
            <=> (ConfiguredSwap = 0 /\ stats_row.memory = 0))

\* C4: a live cpu_pct of 0 with a last sample of cpu > 0 gives the row the
\* sample's cpu times 100; a live cpu_pct above 0 is the row's cpu_pct.
C4_CpuFallback ==
    StatsDone =>
        /\ (stats_pre.cpu_pct = 0 /\ HasSample /\ OrZero(LastSample.cpu) > 0)
               => stats_row.cpu_pct = Val(LastSample.cpu) * 100
        /\ stats_pre.cpu_pct > 0 => stats_row.cpu_pct = stats_pre.cpu_pct

\* a live cpu too small to show in two decimals, replaced by the sample's
C4_Witness ==
    /\ StatsDone
    /\ OrZero(AsDict(stats_in.status, EmptyStatus).cpu) > 0
    /\ stats_pre.cpu_pct = 0
    /\ HasSample
    /\ OrZero(LastSample.cpu) > 0
    /\ stats_row.cpu_pct = Val(LastSample.cpu) * 100

\* C5: each of cpu_pct, mem_bytes and maxmem_bytes that is nonzero before
\* the fallback has that value in the row; when the historical fetch fails
\* or has no sample, all three keep their values.
C5_FillsOnlyZeros ==
    StatsDone =>
        /\ \A f \in StatsFields :
               stats_pre[f] # 0 => stats_row[f] = stats_pre[f]
        /\ ~HasSample => \A f \in StatsFields : stats_row[f] = stats_pre[f]

\* a sample with cpu and mem, of which only mem is taken
C5_Witness ==
    /\ StatsDone
    /\ HasSample
    /\ OrZero(LastSample.cpu) > 0
    /\ OrZero(LastSample.mem) > 0
    /\ stats_pre.cpu_pct # 0
    /\ stats_pre.mem_bytes = 0
    /\ stats_row.cpu_pct = stats_pre.cpu_pct
    /\ stats_row.cpu_pct # Val(LastSample.cpu) * 100
    /\ stats_row.mem_bytes = Val(LastSample.mem)

\* C6: mem_pct is present iff the row's maxmem_bytes is above 0, and is
\* then mem_bytes / maxmem_bytes * 100 to two decimals, of the row's
\* mem_bytes and maxmem_bytes.
C6_MemPct ==
    StatsDone =>
        /\ ~IsNone(stats_row.mem_pct) <=> stats_row.maxmem_bytes > 0
        /\ stats_row.maxmem_bytes > 0
               => stats_row.mem_pct
                      = Some(Pct(stats_row.mem_bytes, stats_row.maxmem_bytes))

\* a maxmem taken from the sample, and a mem_pct of it
C6_Witness ==
    /\ StatsDone
    /\ stats_pre.maxmem_bytes = 0
    /\ stats_row.maxmem_bytes > 0
    /\ stats_row.mem_bytes > 0
    /\ ~IsNone(stats_row.mem_pct)
    /\ Val(stats_row.mem_pct) > 0

----------------------------------------------------------------------------
(* Properties of the requests of the bulk operations *)

BulkOps == {"start_container", "stop_container", "restart_container",
            "update_container_resources"}

ActionKinds == {"status.start.post", "status.stop.post",
                "status.shutdown.post", "status.reboot.post",
                "config.put", "resize.put"}

\* the requests of the call of these kinds for one target, in order
RequestsFor(t, kinds) ==
    LET Mine(r) == r.kind \in kinds /\ r.node = t.node /\ r.vmid = Some(t.vmid)
    IN  SelectSeq(requests, Mine)

\* a bulk operation whose selector resolved to targets
BulkRan(op) == call.op = op /\ Resolved /\ resolution.targets # <<>>

\* C11: a bulk operation whose selector resolves to no target reports the
\* error "No containers matched the selector", not an empty result list,
\* and issues no start, stop, shutdown, reboot, config or resize request.
C11_EmptyIsError ==
    (call.op \in BulkOps /\ Resolved /\ resolution.targets = <<>>) =>
        /\ result.kind = "error"
        /\ result.action = "No containers matched the selector"
        /\ result.results = <<>>
        /\ \A k \in 1..Len(requests) : requests[k].kind \notin ActionKinds

\* a selector with a token, which the enumerated inventory does not match
C11_Witness ==
    /\ call.op \in BulkOps
    /\ Resolved
    /\ CallTokens # <<>>
    /\ requests # <<>>
    /\ resolution.targets = <<>>
    /\ result.kind = "error"
    /\ result.error = call.selector

GivenParams ==
    [NoParams EXCEPT !.cores = call.cores, !.memory = call.memory,
                     !.swap = call.swap]

AnyParamGiven ==
    ~(IsNone(call.cores) /\ IsNone(call.memory) /\ IsNone(call.swap))

\* what C13 says of the config request and of the message of target i
UpdateConfigAndMessage(i) ==
    LET t == resolution.targets[i]
        cfg == RequestsFor(t, {"config.put"})
        all == RequestsFor(t, {"config.put", "resize.put"})
        e == result.results[i]
    IN  /\ Len(cfg) = (IF AnyParamGiven THEN 1 ELSE 0)
        /\ \A k \in 1..Len(cfg) : cfg[k].params = GivenParams
        /\ e.ok =>
             /\ (Val(e.message) = <<"no changes">>) <=> (Changes(call) = <<>>)
             /\ Changes(call) # <<>> => Val(e.message) = Changes(call)
             /\ Changes(call) = <<>> => all = <<>>

\* the resize request of target i, when there is to be one
UpdateResize(i, expected) ==
    LET t == resolution.targets[i]
        rsz == RequestsFor(t, {"resize.put"})
    IN  /\ Len(rsz) = (IF expected THEN 1 ELSE 0)
        /\ \A k \in 1..Len(rsz) :
              /\ rsz[k].params.disk = Some(call.disk)
              /\ rsz[k].params.size = Some(SizeStr(Val(call.disk_gb)))
              /\ rsz[k].params.cores = None
              /\ rsz[k].params.memory = None
              /\ rsz[k].params.swap = None

\* C13 as stated: per target, one config request carrying exactly the given
\* ones of cores, memory and swap iff one was given; one resize request
\* with disk and size "+<disk_gb>G" iff disk_gb was given; on success the
\* message lists the requested changes, or is "no changes" and nothing was
\* requested.
C13_UpdateRequests ==
    BulkRan("update_container_resources") =>
        \A i \in 1..Len(resolution.targets) :
            /\ UpdateConfigAndMessage(i)
            /\ UpdateResize(i, ~IsNone(call.disk_gb))

\* C13, amended: the same, but the resize request is issued iff disk_gb was
\* given and the target's config request, if any, did not raise.
C13_UpdateRequestsAmended ==
    BulkRan("update_container_resources") =>
        \A i \in 1..Len(resolution.targets) :
            /\ UpdateConfigAndMessage(i)
            /\ UpdateResize(i, ~IsNone(call.disk_gb)
                               /\ <<i, "config.put">> \notin faults)

\* two targets, memory and a disk increment given: the config request of
\* the first raised and it got no resize request, the second got both
C13_Witness ==
    /\ BulkRan("update_container_resources")
    /\ Len(resolution.targets) = 2
    /\ IsNone(call.cores) /\ ~IsNone(call.memory) /\ ~IsNone(call.disk_gb)
    /\ <<1, "config.put">> \in faults
    /\ RequestsFor(resolution.targets[1], {"resize.put"}) = <<>>
    /\ Len(RequestsFor(resolution.targets[2], {"config.put", "resize.put"})) = 2
    /\ result.results[2].ok

\* C14: stop_container issues one request per target: a shutdown request
\* carrying timeout = timeout_seconds when graceful, a stop request without
\* parameters when not; never both kinds for one target.
C14_StopRequests ==
    BulkRan("stop_container") =>
        \A i \in 1..Len(resolution.targets) :
            LET t == resolution.targets[i]
                rs == RequestsFor(t, ActionKinds)
            IN  /\ Len(rs) = 1
                /\ rs[1].kind = (IF call.graceful THEN "status.shutdown.post"
                                 ELSE "status.stop.post")
                /\ rs[1].params =
                     (IF call.graceful
                      THEN [NoParams EXCEPT
                              !.timeout = Some(call.timeout_seconds)]
                      ELSE NoParams)

\* a forced stop of two targets, the first of which failed
C14_Witness ==
    /\ BulkRan("stop_container")
    /\ ~call.graceful
    /\ Len(resolution.targets) = 2
    /\ <<1, "status.stop.post">> \in faults
    /\ Len(RequestsFor(resolution.targets[2], {"status.stop.post"})) = 1

----------------------------------------------------------------------------
(* Properties of get_containers and of the outermost handlers *)

Listed == call.op = "get_containers"

\* the nodes a cluster-wide enumeration asks for their listing
NamedNodes ==
    {Val(AsList(remote.nodes)[k].node) :
        k \in {j \in 1..Len(AsList(remote.nodes)) :
                  Truthy(AsList(remote.nodes)[j].node)}}

\* the call enumerated the whole cluster and the node list was answered
ClusterWide ==
    /\ call.op \in BulkOps \cup {"get_containers"}
    /\ IsNone(call.node)
    /\ requests # <<>>
    /\ remote.nodes.shape # "raise"

\* C12: in a cluster-wide enumeration a node whose listing request fails
\* is skipped without an error: get_containers and selector resolution
\* still succeed, and get_containers still returns the entries of the
\* nodes that answered.
C12_FailedNodeSkipped ==
    ClusterWide =>
        /\ ~(result.kind = "error" /\ result.error = RemoteError.text)
        /\ Listed =>
             /\ result.kind = "rows"
             /\ \A n \in NamedNodes :
                  remote.lxc[n].shape # "raise" =>
                      \A k \in 1..Len(CoerceEntries(n, AsList(remote.lxc[n]))) :
                          \E j \in 1..Len(result.results) :
                              result.results[j].node = n

\* the row of the i-th enumerated pair has stats
HasStats(i) == ~IsNone(result.results[i].stats)

RowStats(i) == Val(result.results[i].stats)

\* the answers for the container of the i-th enumerated pair
AnswerOf(i) == answers[Val(VmidInt(Inventory[i].ct))]

\* C15: the status fetch and the config fetch of a container fail
\* independently: the row still has its stats fields, the values of the
\* fetch that answered are used, the rows of the other containers are what
\* their own answers give, and get_containers returns no error.
C15_IndependentFetches ==
    (Listed /\ call.include_stats /\ ~resolution.raised) =>
        /\ result.kind = "rows"
        /\ Len(result.results) = Len(Inventory)
        /\ \A i \in 1..Len(Inventory) :
              ~IsNone(VmidInt(Inventory[i].ct)) =>
                 /\ HasStats(i)
                 /\ (AnswerOf(i).config.shape # "raise") =>
                       /\ RowStats(i).memory
                              = MemoryMib(AnswerOf(i).config.payload)
                       /\ RowStats(i).cores
                              = Cores(AnswerOf(i).config.payload)
                 /\ (AnswerOf(i).status.shape # "raise") =>
                       /\ RowStats(i).cpu_pct
                              = CpuPct(Val(AnswerOf(i).status.payload.cpu))
                       /\ RowStats(i).mem_bytes
                              = Val(AnswerOf(i).status.payload.mem)
                 /\ (AnswerOf(i).status.shape = "raise"
                     /\ AnswerOf(i).config.shape = "raise"
                     /\ AnswerOf(i).rrd.shape = "raise") =>
                       /\ RowStats(i).cpu_pct = 0
                       /\ RowStats(i).mem_bytes = 0
                       /\ RowStats(i).maxmem_bytes = 0
                       /\ RowStats(i).memory = 0
                       /\ IsNone(RowStats(i).mem_pct)
                       /\ IsNone(RowStats(i).cores)

\* two containers of one listing: the status fetch of the first failed and
\* its row has the configured limits, the second was answered in full
C15_Witness ==
    /\ Listed /\ call.include_stats /\ ~resolution.raised
    /\ result.kind = "rows"
    /\ Len(Inventory) >= 2
    /\ ~IsNone(VmidInt(Inventory[1].ct))
    /\ ~IsNone(VmidInt(Inventory[2].ct))
    /\ AnswerOf(1).status.shape = "raise"
    /\ AnswerOf(1).config.shape # "raise"
    /\ AnswerOf(2) = Answer(LiveStatus, Limits, History)
    /\ HasStats(1) /\ RowStats(1).memory > 0 /\ ~IsNone(RowStats(1).cores)
    /\ HasStats(2) /\ RowStats(2).cpu_pct > 0

\* C16: no row of a JSON listing holds the raw payloads; a row holds them
\* only when include_raw is set and the style is not json.
C16_NoRawInJson ==
    (Listed /\ result.kind = "rows") =>
        \A i \in 1..Len(result.results) :
            /\ call.format_style = "json" => IsNone(result.results[i].raw)
            /\ ~IsNone(result.results[i].raw) =>
                   (call.include_raw /\ call.format_style # "json")

\* a JSON listing with stats, asked with include_raw
C16_Witness ==
    /\ Listed /\ result.kind = "rows"
    /\ call.format_style = "json" /\ call.include_raw /\ call.include_stats
    /\ Len(result.results) >= 1
    /\ ~IsNone(result.results[1].stats)
    /\ IsNone(result.results[1].raw)

\* the action an operation names in its error report
FailedAction(op) ==
    IF op = "get_containers" THEN "Failed to list containers"
    ELSE IF op = "start_container" THEN "Failed to start container(s)"
    ELSE IF op = "stop_container" THEN "Failed to stop container(s)"
    ELSE IF op = "restart_container" THEN "Failed to restart container(s)"
    ELSE "Failed to update container(s)"

----------------------------------------------------------------------------
(* Properties of the configured memory limit *)

LiveMaxmem == OrZero(AsDict(stats_in.status, EmptyStatus).maxmem)

\* C20: with a live maxmem of 0 or none and a configured memory_mib above
\* 0, the row's maxmem_bytes is memory_mib * 1024 * 1024 and
\* unlimited_memory is false, whatever the historical sample holds.
C20_ConfiguredMaxmem ==
    (StatsDone /\ LiveMaxmem = 0 /\ stats_pre.memory_mib > 0) =>
        /\ stats_row.maxmem_bytes = stats_pre.memory_mib * 1024 * 1024
        /\ ~stats_row.unlimited_memory

\* a sample that holds another maxmem, which the row does not take
C20_Witness ==
    /\ StatsDone
    /\ LiveMaxmem = 0
    /\ stats_pre.memory_mib > 0
    /\ HasSample
    /\ OrZero(LastSample.maxmem) > 0
    /\ OrZero(LastSample.maxmem) # stats_pre.memory_mib * 1024 * 1024
    /\ stats_row.maxmem_bytes = stats_pre.memory_mib * 1024 * 1024
    /\ stats_row.memory = stats_pre.memory_mib

----------------------------------------------------------------------------
(* Properties of create_container and delete_container *)

\* a response as it would be without its {"data": ...} envelope
BareOf(resp, shape) ==
    IF resp.shape = "envelope" THEN [resp EXCEPT !.shape = shape] ELSE resp

\* C18: the requests issued and the result returned are the same whether
\* a response arrives bare or in a {"data": ...} envelope; here for the
\* storage listing of create_container and the status check of
\* delete_container.
C18_EnvelopeTransparent ==
    /\ call.op = "create_container" =>
          LET bare == CreateContainer(call, BareOf(answers.config, "dict"),
                                      BareOf(answers.storages, "list"), faults)
          IN  result = bare.result /\ requests = bare.reqs
    /\ call.op = "delete_container" =>
          LET bare == DeleteContainer(call, BareOf(answers.status, "dict"),
                                      faults)
          IN  result = bare.result /\ requests = bare.reqs

\* the status of the container as the remote API reports it
ReportedRunning ==
    /\ answers.status.shape \in {"dict", "envelope"}
    /\ answers.status.payload.status = Some("running")

ReportedMissing ==
    /\ answers.status.shape = "raise"
    /\ \/ Mentions(answers.status.payload, DoesNotExist)
       \/ Mentions(answers.status.payload, NotFound)

\* the positions of the requests of a kind in the call
Issued(kind) == {k \in 1..Len(requests) : requests[k].kind = kind}

\* C19: delete_container issues no delete request for a running container
\* unless force is set: running without force raises ValueError and issues
\* neither stop nor delete; running with force issues the stop request
\* before the delete request, and no delete request when the stop request
\* raises; a container reported missing raises ValueError and is not
\* deleted.
C19_NoDeleteWhileRunning ==
    call.op = "delete_container" =>
        /\ (ReportedRunning /\ ~call.force) =>
              /\ result.kind = "raised" /\ result.action = "ValueError"
              /\ Issued("status.stop.post") = {} /\ Issued("delete") = {}
        /\ (ReportedRunning /\ call.force) =>
              /\ \A d \in Issued("delete") :
                    \E k \in Issued("status.stop.post") : k < d
              /\ <<1, "status.stop.post">> \in faults => Issued("delete") = {}
        /\ ReportedMissing =>
              /\ result.kind = "raised" /\ result.action = "ValueError"
              /\ Issued("delete") = {}

----------------------------------------------------------------------------
(* Properties of the rows, the requests and the enumeration *)

Rows == result.results

\* the entries of the raw listing of a node that the enumeration keeps:
\* the keyed records and the scalars that parse as an integer
Kept(n) ==
    {k \in 1..Len(AsList(remote.lxc[n])) :
        \/ AsList(remote.lxc[n])[k].kind = "dict"
        \/ ToInt(AsList(remote.lxc[n])[k].val).ok}

\* the nodes whose listing the call asked for
AskedNodes == IF Truthy(call.node) THEN {Val(call.node)} ELSE NamedNodes

\* C21: get_containers returns exactly one row per enumerated (node,
\* record) pair, none dropped and none merged, in the order of the
\* enumeration: the nodes in the order of the node list and, per node, the
\* order of its listing. The name of a row is the record's name, else its
\* hostname, else "ct-" followed by its id.
C21_RowPerPair ==
    (Listed /\ ~resolution.raised) =>
        /\ result.kind = "rows"
        /\ Len(Rows) = Len(Inventory)
        /\ \A n \in AskedNodes :
              Cardinality({i \in 1..Len(Rows) : Rows[i].node = n})
                  = Cardinality(Kept(n))
        /\ \A i \in 1..Len(Rows) :
              LET ct == Inventory[i].ct
              IN  /\ Rows[i].node = Inventory[i].node
                  /\ Rows[i].vmid = IF IsNone(ct.vmid) THEN None
                                    ELSE Some(VmidStr(Val(ct.vmid)))
                  /\ Truthy(ct.name) => Rows[i].name = Val(ct.name)
                  /\ (~Truthy(ct.name) /\ Truthy(ct.hostname)) =>
                        Rows[i].name = Val(ct.hostname)
                  /\ (~Truthy(ct.name) /\ ~Truthy(ct.hostname)
                        /\ ~IsNone(ct.vmid)) =>
                        Rows[i].name
                            = <<"c", "t", "-">> \o VmidStr(Val(ct.vmid))
        /\ IsNone(call.node) =>
              \A i, j \in 1..Len(Rows) :
                  i < j =>
                      \E a, b \in 1..Len(AsList(remote.nodes)) :
                          /\ a <= b
                          /\ AsList(remote.nodes)[a].node = Some(Rows[i].node)
                          /\ AsList(remote.nodes)[b].node = Some(Rows[j].node)

\* two rows for the same (node, id), named by name and by hostname, and a
\* row named after its id
C21_Witness ==
    /\ Listed
    /\ result.kind = "rows"
    /\ \E i, j \in 1..Len(Rows) :
          /\ i < j
          /\ Rows[i].node = Rows[j].node
          /\ Rows[i].vmid = Rows[j].vmid
          /\ Rows[i].name = web
          /\ Rows[j].name = db
    /\ \E k \in 1..Len(Rows) : Rows[k].name = <<"c", "t", "-", "1", "0", "0">>

\* C22: restart_container passes its timeout_seconds to the reboot request
\* of every target, as stop_container does to its shutdown request.
C22_RebootTimeout ==
    BulkRan("restart_container") =>
        \A i \in 1..Len(resolution.targets) :
            LET reboots == RequestsFor(resolution.targets[i],
                                       {"status.reboot.post"})
            IN  /\ reboots # <<>>
                /\ \A k \in 1..Len(reboots) :
                      reboots[k].params.timeout = Some(call.timeout_seconds)

\* C23: the historical samples of a container are requested iff, after the
\* stopped override and the substitution of the configured limit, the
\* memory in use, the memory limit or the cpu share is zero; they are
\* requested at most once, and only after the status and the config
\* request of that container.
C23_RrdWhenZero ==
    StatsDone =>
        /\ Issued("rrddata.get") # {}
              <=> \/ stats_pre.mem_bytes = 0
                  \/ stats_pre.maxmem_bytes = 0
                  \/ stats_pre.cpu_pct = 0
        /\ Cardinality(Issued("rrddata.get")) <= 1
        /\ \A k \in Issued("rrddata.get") :
              /\ \E s \in Issued("status.current.get") : s < k
              /\ \E g \in Issued("config.get") : g < k

\* only the cpu share is zero, and the samples are requested
C23_Witness ==
    /\ StatsDone
    /\ stats_pre.cpu_pct = 0
    /\ stats_pre.mem_bytes > 0
    /\ stats_pre.maxmem_bytes > 0
    /\ Cardinality(Issued("rrddata.get")) = 1

\* the configuration the stats block read, and its memory aliases in the
\* order they are looked up
ReadConfig == AsDict(stats_in.config, EmptyConfig)

Aliases ==
    <<ReadConfig.memory, ReadConfig.ram, ReadConfig.maxmem,
      ReadConfig.memoryMiB>>

PresentAliases == {k \in 1..Len(Aliases) : ~IsNone(Aliases[k])}

\* C24: the configured memory limit is read from the aliases memory, ram,
\* maxmem, memoryMiB in this order: the first alias that is present decides,
\* a later alias is consulted only when every earlier one is absent, a
\* value that does not parse as an integer gives 0, and so does a
\* configuration with none of them.
C24_MemoryAliases ==
    StatsDone =>
        /\ PresentAliases = {} => stats_pre.memory_mib = 0
        /\ \A k \in PresentAliases :
              (\A j \in PresentAliases : k <= j) =>
                  stats_pre.memory_mib
                      = IF ToInt(Val(Aliases[k])).ok
                        THEN ToInt(Val(Aliases[k])).val
                        ELSE 0

\* memory and ram are absent and the limit is that of maxmem, not that of
\* memoryMiB
C24_Witness ==
    /\ StatsDone
    /\ PresentAliases = {3, 4}
    /\ Aliases[3] # Aliases[4]
    /\ stats_pre.memory_mib = ToInt(Val(Aliases[3])).val
    /\ stats_row.memory = stats_pre.memory_mib

\* the limit in MiB is back-derived: none configured, no limit in bytes
\* before the fallback, and a last sample with a limit
BackDerived ==
    /\ stats_pre.memory_mib = 0
    /\ stats_pre.maxmem_bytes = 0
    /\ HasSample
    /\ OrZero(LastSample.maxmem) > 0

\* m is maxmem / 2^20 rounded to the nearest integer, a tie to the even one
Nearest(m, maxmem) ==
    LET mib == 1024 * 1024
        d == IF m * mib >= maxmem THEN m * mib - maxmem ELSE maxmem - m * mib
    IN  2 * d < mib \/ (2 * d = mib /\ m % 2 = 0)

\* C25: the row's memory limit in MiB is back-derived from the last
\* historical sample exactly when the configuration gives 0, the limit in
\* bytes is still 0 before the fallback and the sample has a limit above 0;
\* it is then that limit divided by 2^20 and rounded; in every other case
\* the row carries the configured value.
C25_BackDerivedMemory ==
    StatsDone =>
        /\ BackDerived =>
              Nearest(stats_row.memory, OrZero(LastSample.maxmem))
        /\ ~BackDerived => stats_row.memory = stats_pre.memory_mib

\* a sample limit of 2.5 MiB gives 2
C25_Witness ==
    /\ StatsDone
    /\ BackDerived
    /\ OrZero(LastSample.maxmem) = 5 * 512 * 1024
    /\ stats_row.memory = 2
    /\ stats_row.maxmem_bytes = OrZero(LastSample.maxmem)

\* the enumerated pairs of one node, in order
PairsOf(n) ==
    LET OnNode(p) == p.node = n
    IN  SelectSeq(Inventory, OnNode)

\* what the enumeration makes of a kept entry of a raw listing
Normalised(it) ==
    IF it.kind = "dict" THEN it.ct
    ELSE Ct(Some(PyInt(ToInt(it.val).val)), None, None, None)

\* C26: the enumeration normalises every entry of a raw listing, for one
\* node as for the whole cluster: a keyed record is passed through
\* unchanged, a bare scalar that parses as an integer becomes a record
\* holding only that id, and an entry that does not parse is dropped
\* without failing the enumeration and without dropping any other entry.
C26_EntriesNormalised ==
    (Listed /\ ~resolution.raised) =>
        /\ result.kind = "rows"
        /\ \A i \in 1..Len(Inventory) : Inventory[i].node \in AskedNodes
        /\ \A n \in AskedNodes :
              /\ Len(PairsOf(n)) = Cardinality(Kept(n))
              /\ \A k \in Kept(n) :
                    PairsOf(n)[Cardinality({j \in Kept(n) : j <= k})].ct
                        = Normalised(AsList(remote.lxc[n])[k])

\* a listing with a scalar that is no number before one that is: the
\* first is dropped, the second is enumerated
C26_Witness ==
    /\ Listed
    /\ ~resolution.raised
    /\ \E n \in AskedNodes :
          \E k \in Kept(n) :
              /\ k > 1
              /\ k - 1 \notin Kept(n)
              /\ AsList(remote.lxc[n])[k].kind = "scalar"
              /\ Len(PairsOf(n)) = Len(AsList(remote.lxc[n])) - 1
              /\ PairsOf(n)[Len(PairsOf(n))].ct.vmid = Some(PyInt(100))

\* C27: every target _resolve_targets returns is an entry of the
\* inventory: its id is not negative and the inventory holds a record of
\* its node with that id; a record without an id is resolved by no token.
C27_TargetsAreReal ==
    Resolved =>
        \A i \in 1..Len(resolution.targets) :
            /\ resolution.targets[i].vmid >= 0
            /\ InInventory(resolution.targets[i].node,
                           resolution.targets[i].vmid)

\* the config and resize requests issued for target i, in order
UpdatesOf(i) ==
    RequestsFor(resolution.targets[i], {"config.put", "resize.put"})

\* C28: update_container_resources issues, per target, the config request
\* before the resize request; it issues no resize request for a target
\* whose config request raised; and the entry of a target is ok iff every
\* request issued for it returned without error: when the config request
\* succeeded and the resize request raised the entry is not ok, and the
\* config request is not repeated or undone.
C28_ConfigThenResize ==
    BulkRan("update_container_resources") =>
        \A i \in 1..Len(resolution.targets) :
            /\ \A a, b \in 1..Len(UpdatesOf(i)) :
                  a < b => /\ UpdatesOf(i)[a].kind = "config.put"
                           /\ UpdatesOf(i)[b].kind = "resize.put"
            /\ (\E a \in 1..Len(UpdatesOf(i)) :
                    /\ UpdatesOf(i)[a].kind = "config.put"
                    /\ <<i, "config.put">> \in faults) =>
                  \A b \in 1..Len(UpdatesOf(i)) :
                      UpdatesOf(i)[b].kind # "resize.put"
            /\ result.results[i].ok
                  <=> \A a \in 1..Len(UpdatesOf(i)) :
                          <<i, UpdatesOf(i)[a].kind>> \notin faults

\* the config request of a target succeeded and its resize request raised:
\* both were issued, in this order, and the entry is not ok
C28_Witness ==
    /\ BulkRan("update_container_resources")
    /\ \E i \in 1..Len(resolution.targets) :
          /\ Len(UpdatesOf(i)) = 2
          /\ UpdatesOf(i)[1].kind = "config.put"
          /\ UpdatesOf(i)[2].kind = "resize.put"
          /\ <<i, "config.put">> \notin faults
          /\ <<i, "resize.put">> \in faults
          /\ ~result.results[i].ok

SingleActionOps == {"start_container", "stop_container", "restart_container"}

\* the positions of the action requests and of the enumeration requests
ActionPositions ==
    {k \in 1..Len(requests) : requests[k].kind \in ActionKinds}

EnumerationPositions == Issued("nodes.get") \cup Issued("lxc.get")

\* no two action requests for the same (node, id), no request issued
\* twice, every listing requested at most once, and every action request
\* after every enumeration request, all named nodes having been listed
ActionDiscipline ==
    /\ \A a, b \in ActionPositions :
          a < b => \/ requests[a].node # requests[b].node
                   \/ requests[a].vmid # requests[b].vmid
    /\ \A a, b \in 1..Len(requests) : a < b => requests[a] # requests[b]
    /\ \A a \in ActionPositions :
          /\ \A e \in EnumerationPositions : e < a
          /\ \A n \in NamedNodes :
                \E e \in Issued("lxc.get") : requests[e].node = n

\* C29 as stated: a call of start, stop or restart issues at most one
\* action request per (node, id) even when several tokens name the same
\* container, enumerates the inventory exactly once, issues every action
\* request after the enumeration, and repeats no request.
C29_OneEnumeration ==
    call.op \in SingleActionOps =>
        /\ ActionDiscipline
        /\ Cardinality(Issued("nodes.get")) = 1

\* C29, amended: the same, but the inventory is enumerated exactly once
\* when the selector is not empty and not at all when it is empty.
C29_OneEnumerationAmended ==
    call.op \in SingleActionOps =>
        /\ ActionDiscipline
        /\ call.selector # <<>> => Cardinality(Issued("nodes.get")) = 1
        /\ call.selector = <<>> => requests = <<>>

\* two tokens name the same container: one enumeration, then one action
\* request per target, the first of which raised and was not repeated
C29_Witness ==
    /\ call.op \in SingleActionOps
    /\ Resolved
    /\ resolution.targets # <<>>
    /\ Len(resolution.resolved) > Len(resolution.targets)
    /\ \E kind \in ActionKinds : <<1, kind>> \in faults
    /\ Cardinality(Issued("nodes.get")) = 1
    /\ Cardinality(ActionPositions) = Len(resolution.targets)

EnumerationKinds == {"nodes.get", "lxc.get"}

StatsKinds == {"status.current.get", "config.get", "rrddata.get"}

\* C30: get_containers only reads: whatever its arguments and whatever the
\* remote API answers, it issues only node list, listing, status, config
\* and history requests, the last three only for enumerated containers,
\* and never a start, stop, shutdown, reboot, config update, resize, create
\* or delete request; without include_stats it issues no request about a
\* single container at all.
C30_ReadOnly ==
    Listed =>
        \A k \in 1..Len(requests) :
            /\ requests[k].kind \in EnumerationKinds \cup StatsKinds
            /\ requests[k].kind \in StatsKinds =>
                  /\ call.include_stats
                  /\ InInventory(requests[k].node, Val(requests[k].vmid))
            /\ requests[k].kind \in EnumerationKinds =>
                  IsNone(requests[k].vmid)

\* a listing without stats of several containers with an id, after which
\* only enumeration requests were issued
C30_Witness ==
    /\ Listed
    /\ ~call.include_stats
    /\ result.kind = "rows"
    /\ Len(Rows) >= 2
    /\ \A i \in 1..Len(Rows) : ~IsNone(VmidInt(Inventory[i].ct))
    /\ requests # <<>>
    /\ \A k \in 1..Len(requests) : requests[k].kind \in EnumerationKinds

====
